---- MODULE Spec2Model ----
(***************************************************************************)
(* Auth service of the microservices platform: credentials, account        *)
(* lockout, refresh tokens and password-reset tokens, as held in the       *)
(* shared PostgreSQL store, and the HTTP handlers that work on them.       *)
(* Every handler is a sequence of awaited store calls; each awaited call   *)
(* is one atomic step, and steps of different requests interleave freely   *)
(* (several instances share the store).  Time is counted in minutes.       *)
(***************************************************************************)
EXTENDS Integers, Sequences, FiniteSets, TLC

\* ---------------------------------------------------------------- constants
MAX_LOGIN_ATTEMPTS == 5
LOCKOUT_DURATION_MINUTES == 15
TOKEN_EXPIRY_HOURS == 1
REFRESH_EXPIRES_IN_DAYS == 30
RESET_RATE_WINDOW_MINUTES == 60
RESET_RATE_MAX == 3
TOO_MANY_REQUESTS == 429
EMAIL_VERIFICATION_EXPIRY_HOURS == 24
JWT_EXPIRES_IN_DAYS == 7

\* ---------------------------------------------------------------- bounds
MaxLockTime == 15
MaxResetTime == 61
MaxAttempts == 6
MaxRefreshTokens == 2
MaxResetTokens == 2
MaxPwUpdates == 1
MaxIssued == 4
MaxVerifyTokens == 2
MaxVerifyTime == 1441
MaxRefreshTime == 43201
MaxSweepRows == 3
MaxAccessTime == 10080
MaxLapseTime == 16

Users == {1, 2}
Procs == {1, 2}
Instances == {1, 2}
NoUser == 0
Emails == Users \cup {NoUser}
Passwords == {"pw0", "pw1"}
InitialPassword == "pw0"
NULL == -1
LockTicks == {LOCKOUT_DURATION_MINUTES - 5, LOCKOUT_DURATION_MINUTES}
ResetTicks == {TOKEN_EXPIRY_HOURS * 60, TOKEN_EXPIRY_HOURS * 60 + 1}
RefreshTicks == {REFRESH_EXPIRES_IN_DAYS * 24 * 60, REFRESH_EXPIRES_IN_DAYS * 24 * 60 + 1}
VerifyTicks == {EMAIL_VERIFICATION_EXPIRY_HOURS * 60, EMAIL_VERIFICATION_EXPIRY_HOURS * 60 + 1}

\* ---------------------------------------------------------------- state
VARIABLES
  now,                    \* wall clock / CURRENT_TIMESTAMP, in minutes
  auth_users,             \* ids of the rows of auth_users
  password_hash,          \* auth_users.password_hash
  failed_login_attempts,  \* auth_users.failed_login_attempts
  locked_until,           \* auth_users.locked_until (NULL or a time)
  email_verified,         \* auth_users.email_verified
  email_verification_token,    \* auth_users.email_verification_token (NULL or a token)
  email_verification_expires,  \* auth_users.email_verification_expires (NULL or a time)
  evCount,                \* number of verification tokens generated so far
  refresh_tokens,         \* rows of auth_refresh_tokens
  rtCount,                \* number of refresh tokens generated so far
  password_resets,        \* rows of auth_password_resets
  prCount,                \* number of reset tokens generated so far
  pc,                     \* position of each in-flight request
  req,                    \* the request body of each request
  loc,                    \* the handler's local variables
  resp,                   \* the last response sent by each request slot
  sweep,                  \* position of each instance's cleanup callback
  returned,               \* history: values RETURNING gave since the last reset
  pwUpdates,              \* history: password updates done under each reset token
  consumed                \* history: reset tokens marked used by a reset-password request

verifyVars == <<email_verification_token, email_verification_expires, evCount>>
storeVars == <<auth_users, password_hash, failed_login_attempts, locked_until,
               email_verified, verifyVars, refresh_tokens, rtCount, password_resets, prCount>>
procVars == <<pc, req, loc, resp, sweep>>
histVars == <<returned, pwUpdates, consumed>>
vars == <<now, storeVars, procVars, histVars>>

\* ---------------------------------------------------------------- helpers
\* bcrypt: a one-way function of the password, and its verify operation.
Hash(password) == <<"bcrypt", password>>
Compare(password, hash) == hash = Hash(password)

NoReq == [op |-> "none", email |-> NoUser, password |-> "", token |-> 0]
NoLoc == [user |-> NoUser, hash |-> <<>>, compared |-> FALSE, valid |-> FALSE,
          attempts |-> 0, token |-> 0]
NoResp == [status |-> 0, kind |-> "none", message |-> "", n |-> 0]

Response(status, kind, message, n) ==
  [status |-> status, kind |-> kind, message |-> message, n |-> n]

\* User.findByEmail: the id of the row with this email, or none.
\* An INSERT whose user_id REFERENCES no row of auth_users throws; the error has no
\* statusCode and the error handler answers 500.
ForeignKeyViolation == Response(500, "Error", "violates foreign key constraint", 0)

findByEmail(email) == IF email \in auth_users THEN email ELSE NoUser

isAccountLockedFlipped(lockedUntil, t) == lockedUntil # NULL /\ lockedUntil < t

isAccountLockedInclusive(lockedUntil, t) == lockedUntil # NULL /\ lockedUntil >= t

\* User.isAccountLocked on the value read from the row.
isAccountLocked(lockedUntil, t) == lockedUntil # NULL /\ lockedUntil > t

IncrementedAttemptsCapped(attempts) ==
  IF attempts < MAX_LOGIN_ATTEMPTS THEN attempts + 1 ELSE attempts

\* SET failed_login_attempts = COALESCE(failed_login_attempts, 0) + 1
IncrementedAttempts(attempts) == attempts + 1

ShouldLockAbove(attempts) == attempts > MAX_LOGIN_ATTEMPTS

\* if (attempts >= MAX_LOGIN_ATTEMPTS)
ShouldLock(attempts) == attempts >= MAX_LOGIN_ATTEMPTS

\* The handler of slot p answers r (res.json, or a throw that the error
\* middleware turns into a response) and ends.
Finish(p, r) ==
  /\ pc' = [pc EXCEPT ![p] = "done"]
  /\ resp' = [resp EXCEPT ![p] = r]
  /\ UNCHANGED loc

\* The response of slot p has gone out; the slot takes the next request.
Deliver(p) ==
  /\ pc[p] = "done"
  /\ pc' = [pc EXCEPT ![p] = "idle"]
  /\ req' = [req EXCEPT ![p] = NoReq]
  /\ loc' = [loc EXCEPT ![p] = NoLoc]
  /\ resp' = [resp EXCEPT ![p] = NoResp]
  /\ UNCHANGED <<now, sweep, storeVars, histVars>>

\* The handler of slot p goes on to its next awaited call with locals l.
Step(p, label, l) ==
  /\ pc' = [pc EXCEPT ![p] = label]
  /\ loc' = [loc EXCEPT ![p] = l]
  /\ UNCHANGED resp

\* Sign-ins in flight that may still insert a refresh token.
PendingRefresh ==
  Cardinality({p \in Procs : pc[p] \in {"si_lock", "si_verify", "si_reset", "si_token"}
                              /\ Compare(req[p].password, loc[p].hash)})

\* ---------------------------------------------------------------- Init
Init ==
  /\ now = 0
  /\ auth_users = Users
  /\ password_hash = [u \in Users |-> Hash(InitialPassword)]
  /\ failed_login_attempts = [u \in Users |-> 0]
  /\ locked_until = [u \in Users |-> NULL]
  /\ email_verified = [u \in Users |-> FALSE]
  /\ email_verification_token = [u \in Users |-> NULL]
  /\ email_verification_expires = [u \in Users |-> NULL]
  /\ evCount = 0
  /\ refresh_tokens = {}
  /\ rtCount = 0
  /\ password_resets = {}
  /\ prCount = 0
  /\ pc = [p \in Procs |-> "idle"]
  /\ req = [p \in Procs |-> NoReq]
  /\ loc = [p \in Procs |-> NoLoc]
  /\ resp = [p \in Procs |-> NoResp]
  /\ returned = [u \in Users |-> <<>>]
  /\ sweep = [i \in Instances |-> "wait"]
  /\ pwUpdates = [t \in 1..MaxResetTokens |-> 0]
  /\ consumed = {}

\* ---------------------------------------------------------------- time
Tick(d, max) ==
  /\ now + d <= max
  /\ now' = now + d
  /\ UNCHANGED <<storeVars, procVars, histVars>>

\* ---------------------------------------------------------------- POST /auth/signin
\* const user = await User.findByEmail(email); if (!user) throw Unauthorized
SignIn_findByEmail(p, email, password) ==
  /\ pc[p] = "idle"
  /\ email \in Users => failed_login_attempts[email] < MaxAttempts
  /\ (email \in auth_users /\ Compare(password, password_hash[email]))
        => rtCount + PendingRefresh < MaxRefreshTokens
  /\ req' = [req EXCEPT ![p] = [NoReq EXCEPT !.op = "signin", !.email = email,
                                             !.password = password]]
  /\ LET user == findByEmail(email) IN
       IF user = NoUser
       THEN Finish(p, Response(401, "Unauthorized", "Invalid email or password", 0))
       ELSE /\ pc' = [pc EXCEPT ![p] = "si_lock"]
            /\ loc' = [loc EXCEPT ![p] = [NoLoc EXCEPT !.user = user,
                                                      !.hash = password_hash[user]]]
            /\ resp' = [resp EXCEPT ![p] = NoResp]
  /\ UNCHANGED <<now, sweep, storeVars, histVars>>

\* const lockStatus = await User.isAccountLocked(user.id); if locked throw 429
SignIn_isAccountLocked(p) ==
  /\ pc[p] = "si_lock"
  /\ LET u == loc[p].user IN
       IF isAccountLocked(locked_until[u], now)
       THEN Finish(p, Response(TOO_MANY_REQUESTS, "TooManyRequests",
                               "Account is locked. Try again in n minutes.",
                               locked_until[u] - now))
       ELSE Step(p, "si_verify", loc[p])
  /\ UNCHANGED <<now, sweep, storeVars, req, histVars>>

\* const isValidPassword = await User.verifyPassword(password, user.password_hash)
SignIn_verifyPassword(p) ==
  /\ pc[p] = "si_verify"
  /\ LET ok == Compare(req[p].password, loc[p].hash) IN
       Step(p, IF ok THEN "si_reset" ELSE "si_record",
            [loc[p] EXCEPT !.compared = TRUE, !.valid = ok])
  /\ UNCHANGED <<now, sweep, storeVars, req, histVars>>

\* User.recordFailedLoginAttempt, first query: UPDATE ... + 1 RETURNING; below the
\* threshold the handler answers 401 without a further store call.
SignIn_recordFailedLoginAttempt(p) ==
  /\ pc[p] = "si_record"
  /\ LET u == loc[p].user
         attempts == IncrementedAttempts(failed_login_attempts[u]) IN
       /\ failed_login_attempts' = [failed_login_attempts EXCEPT ![u] = attempts]
       /\ returned' = [returned EXCEPT ![u] = Append(@, attempts)]
       /\ IF ShouldLock(attempts)
          THEN Step(p, "si_lockwrite", [loc[p] EXCEPT !.attempts = attempts])
          ELSE Finish(p, Response(401, "Unauthorized",
                                  "Invalid email or password. n attempts remaining.",
                                  MAX_LOGIN_ATTEMPTS - attempts))
  /\ UNCHANGED <<now, sweep, auth_users, password_hash, locked_until, email_verified, verifyVars,
                 refresh_tokens, rtCount, password_resets, prCount, req, pwUpdates, consumed>>

\* User.recordFailedLoginAttempt, second query: UPDATE ... SET locked_until; then
\* sendAccountLockedEmail and 429.
SignIn_lockAccount(p) ==
  /\ pc[p] = "si_lockwrite"
  /\ LET u == loc[p].user
         lockedUntil == now + LOCKOUT_DURATION_MINUTES IN
       /\ locked_until' = [locked_until EXCEPT ![u] = lockedUntil]
       /\ Finish(p, Response(TOO_MANY_REQUESTS, "TooManyRequests",
                             "Account locked due to too many failed attempts. Try again in n minutes.",
                             LOCKOUT_DURATION_MINUTES))
  /\ UNCHANGED <<now, sweep, auth_users, password_hash, failed_login_attempts, email_verified, verifyVars,
                 refresh_tokens, rtCount, password_resets, prCount, req, histVars>>

resetFailedLoginAttemptsLockOnly(u) ==
  /\ locked_until' = [locked_until EXCEPT ![u] = NULL]
  /\ UNCHANGED failed_login_attempts

\* User.resetFailedLoginAttempts / User.unlockAccount: one UPDATE of both fields.
resetFailedLoginAttempts(u) ==
  /\ failed_login_attempts' = [failed_login_attempts EXCEPT ![u] = 0]
  /\ locked_until' = [locked_until EXCEPT ![u] = NULL]

\* await User.resetFailedLoginAttempts(user.id)
SignIn_resetFailedLoginAttempts(p) ==
  /\ pc[p] = "si_reset"
  /\ resetFailedLoginAttempts(loc[p].user)
  /\ returned' = [returned EXCEPT ![loc[p].user] = <<>>]
  /\ Step(p, "si_token", loc[p])
  /\ UNCHANGED <<now, sweep, auth_users, password_hash, email_verified, verifyVars, refresh_tokens, rtCount,
                 password_resets, prCount, req, pwUpdates, consumed>>

\* A create that keeps one session per credential: it revokes the others.
RefreshToken_createSingleSession(userId) ==
  /\ rtCount' = rtCount + 1
  /\ refresh_tokens' =
       {IF r.user_id = userId THEN [r EXCEPT !.revoked = TRUE] ELSE r : r \in refresh_tokens}
         \cup {[token |-> rtCount + 1, user_id |-> userId,
                expires_at |-> now + REFRESH_EXPIRES_IN_DAYS * 24 * 60, revoked |-> FALSE]}

\* RefreshToken.create(userId, expiresInDays = 30)
RefreshToken_create(userId) ==
  /\ rtCount' = rtCount + 1
  /\ refresh_tokens' = refresh_tokens \cup
       {[token |-> rtCount + 1, user_id |-> userId,
         expires_at |-> now + REFRESH_EXPIRES_IN_DAYS * 24 * 60, revoked |-> FALSE]}

\* const refreshToken = await RefreshToken.create(user.id)
SignIn_createRefreshToken(p) ==
  /\ pc[p] = "si_token"
  /\ IF loc[p].user \in auth_users
     THEN /\ RefreshToken_create(loc[p].user)
          /\ Step(p, "si_verified", loc[p])
     ELSE /\ Finish(p, ForeignKeyViolation)
          /\ UNCHANGED <<refresh_tokens, rtCount>>
  /\ UNCHANGED <<now, sweep, auth_users, password_hash, failed_login_attempts, locked_until,
                 email_verified, verifyVars, password_resets, prCount, req, histVars>>

\* const emailVerified = await User.isEmailVerified(user.id); res.json(...)
SignIn_respond(p) ==
  /\ pc[p] = "si_verified"
  /\ Finish(p, Response(200, "OK", "Login successful",
                        IF email_verified[loc[p].user] THEN 1 ELSE 0))
  /\ UNCHANGED <<now, sweep, storeVars, req, histVars>>

\* An unlock whose UPDATE has no WHERE clause.
unlockEveryAccount(u) ==
  /\ u \in auth_users
  /\ failed_login_attempts[u] > 0 \/ locked_until[u] # NULL
  /\ failed_login_attempts' = [v \in Users |-> 0]
  /\ locked_until' = [v \in Users |-> NULL]
  /\ returned' = [returned EXCEPT ![u] = <<>>]
  /\ UNCHANGED <<now, sweep, auth_users, password_hash, email_verified, verifyVars, refresh_tokens, rtCount,
                 password_resets, prCount, procVars, pwUpdates, consumed>>

\* User.unlockAccount(userId): admin operation, one UPDATE.
unlockAccount(u) ==
  /\ u \in auth_users
  /\ failed_login_attempts[u] > 0 \/ locked_until[u] # NULL
  /\ resetFailedLoginAttempts(u)
  /\ returned' = [returned EXCEPT ![u] = <<>>]
  /\ UNCHANGED <<now, sweep, auth_users, password_hash, email_verified, verifyVars, refresh_tokens, rtCount,
                 password_resets, prCount, procVars, pwUpdates, consumed>>

SignInStep(p) ==
  \/ SignIn_isAccountLocked(p)
  \/ SignIn_verifyPassword(p)
  \/ SignIn_recordFailedLoginAttempt(p)
  \/ SignIn_lockAccount(p)
  \/ SignIn_resetFailedLoginAttempts(p)
  \/ SignIn_createRefreshToken(p)
  \/ SignIn_respond(p)

\* ---------------------------------------------------------------- PasswordReset model
\* PasswordReset.findByToken: the row with this token, joined with its user.
PasswordReset_findByToken(token) ==
  {r \in password_resets : r.token = token /\ r.user_id \in auth_users}

\* A validation that looks at the expiry before the used flag.
validateTokenExpiryFirst(token) ==
  LET rows == PasswordReset_findByToken(token) IN
    IF rows = {}
    THEN [valid |-> FALSE, reason |-> "Token not found", userId |-> NoUser]
    ELSE LET resetToken == CHOOSE r \in rows : TRUE IN
           IF resetToken.expires_at < now
           THEN [valid |-> FALSE, reason |-> "Token has expired", userId |-> NoUser]
           ELSE IF resetToken.used
           THEN [valid |-> FALSE, reason |-> "Token has already been used", userId |-> NoUser]
           ELSE [valid |-> TRUE, reason |-> "", userId |-> resetToken.user_id]

\* PasswordReset.validateToken: not found, then used, then expired, else valid.
validateToken(token) ==
  LET rows == PasswordReset_findByToken(token) IN
    IF rows = {}
    THEN [valid |-> FALSE, reason |-> "Token not found", userId |-> NoUser]
    ELSE LET resetToken == CHOOSE r \in rows : TRUE IN
           IF resetToken.used
           THEN [valid |-> FALSE, reason |-> "Token has already been used", userId |-> NoUser]
           ELSE IF resetToken.expires_at < now
           THEN [valid |-> FALSE, reason |-> "Token has expired", userId |-> NoUser]
           ELSE [valid |-> TRUE, reason |-> "", userId |-> resetToken.user_id]

\* PasswordReset.getRecentRequestCount(userId, withinMinutes)
getRecentRequestCount(userId, withinMinutes) ==
  Cardinality({r \in password_resets :
                 r.user_id = userId /\ r.created_at > now - withinMinutes})

\* PasswordReset.invalidateForUser: UPDATE ... SET used = TRUE WHERE user_id AND NOT used
invalidateForUser(userId) ==
  {IF r.user_id = userId /\ ~r.used THEN [r EXCEPT !.used = TRUE] ELSE r :
     r \in password_resets}

\* PasswordReset.markAsUsed: UPDATE ... SET used = TRUE WHERE token = $1
markAsUsed(token) ==
  {IF r.token = token THEN [r EXCEPT !.used = TRUE] ELSE r : r \in password_resets}

\* A bulk revocation that deletes the rows instead of flagging them.
revokeAllForUserDeleting(userId) ==
  {r \in refresh_tokens : r.user_id # userId \/ r.revoked}

revokeAllForEveryUser(userId) ==
  {IF ~r.revoked THEN [r EXCEPT !.revoked = TRUE] ELSE r : r \in refresh_tokens}

\* RefreshToken.revokeAllForUser: UPDATE ... SET revoked = TRUE WHERE user_id AND NOT revoked
revokeAllForUser(userId) ==
  {IF r.user_id = userId /\ ~r.revoked THEN [r EXCEPT !.revoked = TRUE] ELSE r :
     r \in refresh_tokens}

\* Forgot-password requests in flight that may still insert a reset token.
PendingResets ==
  Cardinality({p \in Procs : pc[p] \in {"fp_count", "fp_invalidate", "fp_insert"}})

\* if (!user) res.json({ message })
GenericAck ==
  Response(200, "OK",
           "If an account exists with this email, a password reset link has been sent.", 0)

\* if (recentRequests >= 3) res.json({ message })
RateLimitedAck ==
  Response(200, "OK",
           "If an account exists with this email, a password reset link has been sent.", 0)

SentAckDisclosing ==
  Response(200, "OK", "A password reset link has been sent.", 0)

\* after sendPasswordResetEmail: res.json({ message })
SentAck ==
  Response(200, "OK",
           "If an account exists with this email, a password reset link has been sent.", 0)

\* ---------------------------------------------------------------- POST /auth/forgot-password
\* const user = await User.findByEmail(email); if (!user) generic answer
ForgotPassword_findByEmail(p, email, max) ==
  /\ pc[p] = "idle"
  /\ prCount + PendingResets < max
  /\ req' = [req EXCEPT ![p] = [NoReq EXCEPT !.op = "forgot-password", !.email = email]]
  /\ LET user == findByEmail(email) IN
       IF user = NoUser
       THEN Finish(p, GenericAck)
       ELSE /\ pc' = [pc EXCEPT ![p] = "fp_count"]
            /\ loc' = [loc EXCEPT ![p] = [NoLoc EXCEPT !.user = user]]
            /\ resp' = [resp EXCEPT ![p] = NoResp]
  /\ UNCHANGED <<now, sweep, storeVars, histVars>>

\* const recentRequests = await PasswordReset.getRecentRequestCount(user.id, 60)
ForgotPassword_getRecentRequestCount(p) ==
  /\ pc[p] = "fp_count"
  /\ IF getRecentRequestCount(loc[p].user, RESET_RATE_WINDOW_MINUTES) >= RESET_RATE_MAX
     THEN Finish(p, RateLimitedAck)
     ELSE Step(p, "fp_invalidate", loc[p])
  /\ UNCHANGED <<now, sweep, storeVars, req, histVars>>

\* PasswordReset.create, first call: await this.invalidateForUser(userId)
PasswordReset_create_invalidate(p) ==
  /\ pc[p] = "fp_invalidate"
  /\ password_resets' = invalidateForUser(loc[p].user)
  /\ Step(p, "fp_insert", loc[p])
  /\ UNCHANGED <<now, sweep, auth_users, password_hash, failed_login_attempts, locked_until,
                 email_verified, verifyVars, refresh_tokens, rtCount, prCount, req, histVars>>

\* PasswordReset.create, second call: INSERT INTO auth_password_resets
PasswordReset_create_insert(p) ==
  /\ pc[p] = "fp_insert"
  /\ IF loc[p].user \in auth_users
     THEN /\ prCount' = prCount + 1
          /\ password_resets' = password_resets \cup
               {[token |-> prCount + 1, user_id |-> loc[p].user,
                 expires_at |-> now + TOKEN_EXPIRY_HOURS * 60, used |-> FALSE,
                 created_at |-> now]}
          /\ Step(p, "fp_email", [loc[p] EXCEPT !.token = prCount + 1])
     ELSE /\ Finish(p, ForeignKeyViolation)
          /\ UNCHANGED <<password_resets, prCount>>
  /\ UNCHANGED <<now, sweep, auth_users, password_hash, failed_login_attempts, locked_until,
                 email_verified, verifyVars, refresh_tokens, rtCount, req, histVars>>

\* await sendPasswordResetEmail(email, resetToken.token); res.json(...)
ForgotPassword_sendEmail(p) ==
  /\ pc[p] = "fp_email"
  /\ Finish(p, SentAck)
  /\ UNCHANGED <<now, sweep, storeVars, req, histVars>>

ForgotPasswordStep(p) ==
  \/ ForgotPassword_getRecentRequestCount(p)
  \/ PasswordReset_create_invalidate(p)
  \/ PasswordReset_create_insert(p)
  \/ ForgotPassword_sendEmail(p)

\* ---------------------------------------------------------------- POST /auth/reset-password
\* const validation = await PasswordReset.validateToken(token); if invalid throw 400
ResetPassword_validateToken(p, token, password) ==
  /\ pc[p] = "idle"
  /\ token \in DOMAIN pwUpdates => pwUpdates[token] < MaxPwUpdates
  /\ req' = [req EXCEPT ![p] = [NoReq EXCEPT !.op = "reset-password", !.token = token,
                                             !.password = password]]
  /\ LET validation == validateToken(token) IN
       IF ~validation.valid
       THEN Finish(p, Response(400, "BadRequest", validation.reason, 0))
       ELSE /\ pc' = [pc EXCEPT ![p] = "rp_update"]
            /\ loc' = [loc EXCEPT ![p] = [NoLoc EXCEPT !.user = validation.userId,
                                                      !.token = token]]
            /\ resp' = [resp EXCEPT ![p] = NoResp]
  /\ UNCHANGED <<now, sweep, storeVars, histVars>>

\* await User.updatePassword(validation.userId, password)
ResetPassword_updatePassword(p) ==
  /\ pc[p] = "rp_update"
  /\ password_hash' = [password_hash EXCEPT ![loc[p].user] = Hash(req[p].password)]
  /\ pwUpdates' = [pwUpdates EXCEPT ![loc[p].token] = @ + 1]
  /\ Step(p, "rp_mark", loc[p])
  /\ UNCHANGED <<now, sweep, auth_users, failed_login_attempts, locked_until, email_verified, verifyVars,
                 refresh_tokens, rtCount, password_resets, prCount, req, returned, consumed>>

\* await PasswordReset.markAsUsed(token)
ResetPassword_markAsUsed(p) ==
  /\ pc[p] = "rp_mark"
  /\ password_resets' = markAsUsed(loc[p].token)
  /\ consumed' = consumed \cup {loc[p].token}
  /\ Step(p, "rp_revoke", loc[p])
  /\ UNCHANGED <<now, sweep, auth_users, password_hash, failed_login_attempts, locked_until,
                 email_verified, verifyVars, refresh_tokens, rtCount, prCount, req, returned, pwUpdates>>

\* await RefreshToken.revokeAllForUser(validation.userId)
ResetPassword_revokeAllForUser(p) ==
  /\ pc[p] = "rp_revoke"
  /\ refresh_tokens' = revokeAllForUser(loc[p].user)
  /\ Step(p, "rp_reset", loc[p])
  /\ UNCHANGED <<now, sweep, auth_users, password_hash, failed_login_attempts, locked_until,
                 email_verified, verifyVars, rtCount, password_resets, prCount, req, histVars>>

\* await User.resetFailedLoginAttempts(validation.userId); res.json(...)
ResetPassword_resetFailedLoginAttempts(p) ==
  /\ pc[p] = "rp_reset"
  /\ resetFailedLoginAttempts(loc[p].user)
  /\ returned' = [returned EXCEPT ![loc[p].user] = <<>>]
  /\ Finish(p, Response(200, "OK",
                        "Password has been reset successfully. Please sign in with your new password.", 0))
  /\ UNCHANGED <<now, sweep, auth_users, password_hash, email_verified, verifyVars, refresh_tokens, rtCount,
                 password_resets, prCount, req, pwUpdates, consumed>>

\* An awaited store call of the handler rejects (each model method rethrows the
\* store's error): the handler ends there with 500 and the remaining calls are
\* not made.  Nothing undoes the calls already made.
ResetPassword_storeError(p) ==
  /\ pc[p] \in {"rp_update", "rp_mark", "rp_revoke", "rp_reset"}
  /\ Finish(p, Response(500, "InternalServerError", pc[p], 0))
  /\ UNCHANGED <<now, sweep, storeVars, req, histVars>>

ResetPasswordStep(p) ==
  \/ ResetPassword_updatePassword(p)
  \/ ResetPassword_markAsUsed(p)
  \/ ResetPassword_revokeAllForUser(p)
  \/ ResetPassword_resetFailedLoginAttempts(p)
  \/ ResetPassword_storeError(p)

\* ---------------------------------------------------------------- POST /auth/validate-reset-token
ValidateResetToken(p, token) ==
  /\ pc[p] = "idle"
  /\ req' = [req EXCEPT ![p] = [NoReq EXCEPT !.op = "validate-reset-token", !.token = token]]
  /\ LET validation == validateToken(token) IN
       Finish(p, Response(200, "OK", IF validation.valid THEN "valid" ELSE validation.reason, 0))
  /\ UNCHANGED <<now, sweep, storeVars, histVars>>

\* ---------------------------------------------------------------- cleanup interval
deleteExpiredInclusive(rows, t) == {r \in rows : ~(r.expires_at <= t)}

\* deleteExpired of either model: DELETE FROM ... WHERE expires_at < CURRENT_TIMESTAMP
deleteExpired(rows, t) == {r \in rows : ~(r.expires_at < t)}

\* return result.rowCount: the number of rows the DELETE matched
deleteExpiredRowCount(rows, t) == Cardinality({r \in rows : r.expires_at < t})

\* await RefreshToken.deleteExpired()
Cleanup_refreshTokens(i) ==
  /\ sweep[i] \in {"wait", "caught"}
  /\ refresh_tokens' = deleteExpired(refresh_tokens, now)
  /\ sweep' = [sweep EXCEPT ![i] = "resets"]
  /\ UNCHANGED <<now, auth_users, password_hash, failed_login_attempts, locked_until,
                 email_verified, verifyVars, rtCount, password_resets, prCount, pc, req, loc, resp,
                 histVars>>

\* await PasswordReset.deleteExpired()
Cleanup_passwordResets(i) ==
  /\ sweep[i] = "resets"
  /\ password_resets' = deleteExpired(password_resets, now)
  /\ sweep' = [sweep EXCEPT ![i] = "wait"]
  /\ UNCHANGED <<now, auth_users, password_hash, failed_login_attempts, locked_until,
                 email_verified, verifyVars, refresh_tokens, rtCount, prCount, pc, req, loc, resp,
                 histVars>>

\* A callback without the try/catch: the rejection ends the instance's sweeps.
Cleanup_storeErrorUncaught(i) ==
  /\ sweep[i] \in {"wait", "caught", "resets"}
  /\ sweep' = [sweep EXCEPT ![i] = "stopped"]
  /\ UNCHANGED <<now, storeVars, pc, req, loc, resp, histVars>>

\* catch (error) { logger.error('Error cleaning up expired tokens') }: the store call
\* the callback is about to make throws, the rest of this sweep is skipped, and the
\* interval fires again
Cleanup_storeError(i) ==
  /\ sweep[i] \in {"wait", "caught", "resets"}
  /\ sweep' = [sweep EXCEPT ![i] = "caught"]
  /\ UNCHANGED <<now, storeVars, pc, req, loc, resp, histVars>>

\* ---------------------------------------------------------------- email verification
\* A generator that keeps a token the credential already holds.
generateEmailVerificationTokenKeepingOld(userId) ==
  /\ evCount' = evCount + 1
  /\ email_verification_token' =
       [email_verification_token EXCEPT
          ![userId] = IF @ = NULL THEN evCount + 1 ELSE @]
  /\ email_verification_expires' =
       [email_verification_expires EXCEPT
          ![userId] = IF @ = NULL THEN now + EMAIL_VERIFICATION_EXPIRY_HOURS * 60 ELSE @]

\* User.generateEmailVerificationToken: UPDATE auth_users SET email_verification_token
\* = $1, email_verification_expires = $2 WHERE id = $3, with a fresh random token
generateEmailVerificationToken(userId) ==
  /\ evCount' = evCount + 1
  /\ email_verification_token' =
       [email_verification_token EXCEPT ![userId] = evCount + 1]
  /\ email_verification_expires' =
       [email_verification_expires EXCEPT
          ![userId] = now + EMAIL_VERIFICATION_EXPIRY_HOURS * 60]

\* Requests in flight that may still generate a verification token.
PendingVerifications ==
  Cardinality({p \in Procs : pc[p] \in {"rv_verified", "rv_generate", "su_generate"}})

\* POST /auth/verify-email, User.verifyEmail first query: SELECT ... WHERE
\* email_verification_token = $1, then the checks on the row read.
VerifyEmail_select(p, token) ==
  /\ pc[p] = "idle"
  /\ req' = [req EXCEPT ![p] = [NoReq EXCEPT !.op = "verify-email", !.token = token]]
  /\ LET rows == {u \in auth_users : email_verification_token[u] = token} IN
       IF rows = {}
       THEN Finish(p, Response(400, "BadRequest", "Invalid verification token", 0))
       ELSE LET user == CHOOSE u \in rows : TRUE IN
              IF email_verified[user]
              THEN Finish(p, Response(400, "BadRequest", "Email already verified", 0))
              ELSE IF email_verification_expires[user] < now
              THEN Finish(p, Response(400, "BadRequest", "Verification token has expired", 0))
              ELSE /\ pc' = [pc EXCEPT ![p] = "ve_update"]
                   /\ loc' = [loc EXCEPT ![p] = [NoLoc EXCEPT !.user = user]]
                   /\ resp' = [resp EXCEPT ![p] = NoResp]
  /\ UNCHANGED <<now, sweep, storeVars, histVars>>

\* User.verifyEmail second query: UPDATE ... SET email_verified = TRUE, token = NULL
VerifyEmail_update(p) ==
  /\ pc[p] = "ve_update"
  /\ LET u == loc[p].user IN
       /\ email_verified' = [email_verified EXCEPT ![u] = TRUE]
       /\ email_verification_token' = [email_verification_token EXCEPT ![u] = NULL]
       /\ email_verification_expires' = [email_verification_expires EXCEPT ![u] = NULL]
  /\ Finish(p, Response(200, "OK", "Email verified successfully.", 0))
  /\ UNCHANGED <<now, sweep, auth_users, password_hash, failed_login_attempts, locked_until,
                 evCount, refresh_tokens, rtCount, password_resets, prCount, req, histVars>>

\* POST /auth/resend-verification: if (!user) res.json({ message })
ResendAck ==
  Response(200, "OK",
           "If an account exists with this email, a verification link has been sent.", 0)

\* if (isVerified) res.json({ message, alreadyVerified: true })
AlreadyVerifiedAck ==
  Response(200, "OK", "Email is already verified.", 1)

\* after sendEmailVerificationEmail: res.json({ message })
ResentAck ==
  Response(200, "OK",
           "If an account exists with this email, a verification link has been sent.", 0)

\* const user = await User.findByEmail(email)
ResendVerification_findByEmail(p, email) ==
  /\ pc[p] = "idle"
  /\ evCount + PendingVerifications < MaxVerifyTokens
  /\ req' = [req EXCEPT ![p] = [NoReq EXCEPT !.op = "resend-verification", !.email = email]]
  /\ LET user == findByEmail(email) IN
       IF user = NoUser
       THEN Finish(p, ResendAck)
       ELSE /\ pc' = [pc EXCEPT ![p] = "rv_verified"]
            /\ loc' = [loc EXCEPT ![p] = [NoLoc EXCEPT !.user = user]]
            /\ resp' = [resp EXCEPT ![p] = NoResp]
  /\ UNCHANGED <<now, sweep, storeVars, histVars>>

\* const isVerified = await User.isEmailVerified(user.id)
ResendVerification_isEmailVerified(p) ==
  /\ pc[p] = "rv_verified"
  /\ IF email_verified[loc[p].user]
     THEN Finish(p, AlreadyVerifiedAck)
     ELSE Step(p, "rv_generate", loc[p])
  /\ UNCHANGED <<now, sweep, storeVars, req, histVars>>

\* const verificationToken = await User.generateEmailVerificationToken(user.id)
ResendVerification_generateToken(p) ==
  /\ pc[p] = "rv_generate"
  /\ generateEmailVerificationToken(loc[p].user)
  /\ Step(p, "rv_email", [loc[p] EXCEPT !.token = evCount + 1])
  /\ UNCHANGED <<now, sweep, auth_users, password_hash, failed_login_attempts, locked_until,
                 email_verified, refresh_tokens, rtCount, password_resets, prCount, req,
                 histVars>>

\* await sendEmailVerificationEmail(email, verificationToken); res.json(...)
ResendVerification_sendEmail(p) ==
  /\ pc[p] = "rv_email"
  /\ Finish(p, ResentAck)
  /\ UNCHANGED <<now, sweep, storeVars, req, histVars>>

ResendVerificationStep(p) ==
  \/ ResendVerification_isEmailVerified(p)
  \/ ResendVerification_generateToken(p)
  \/ ResendVerification_sendEmail(p)

\* ---------------------------------------------------------------- POST /auth/signup
\* An email as typed: the address it normalizes to and whether it has upper case.
RawEmails == {[address |-> u, upper |-> c] : u \in Users, c \in BOOLEAN}

\* normalizeEmail() / email.toLowerCase(): case variants become one address.
toLowerCase(raw) == raw.address

\* Sign-ups in flight that may still create a credential and its tokens.
PendingSignups ==
  Cardinality({p \in Procs : pc[p] \in {"su_create", "su_generate", "su_email", "su_token"}})

\* The store before any sign-up: initializeDatabase has created empty tables.
InitSignup ==
  /\ now = 0
  /\ auth_users = {}
  /\ password_hash = [u \in Users |-> <<>>]
  /\ failed_login_attempts = [u \in Users |-> 0]
  /\ locked_until = [u \in Users |-> NULL]
  /\ email_verified = [u \in Users |-> FALSE]
  /\ email_verification_token = [u \in Users |-> NULL]
  /\ email_verification_expires = [u \in Users |-> NULL]
  /\ evCount = 0
  /\ refresh_tokens = {}
  /\ rtCount = 0
  /\ password_resets = {}
  /\ prCount = 0
  /\ pc = [p \in Procs |-> "idle"]
  /\ req = [p \in Procs |-> NoReq]
  /\ loc = [p \in Procs |-> NoLoc]
  /\ resp = [p \in Procs |-> NoResp]
  /\ returned = [u \in Users |-> <<>>]
  /\ sweep = [i \in Instances |-> "wait"]
  /\ pwUpdates = [t \in 1..MaxResetTokens |-> 0]
  /\ consumed = {}

\* const existingUser = await User.findByEmail(email); if found throw ConflictError
Signup_findByEmail(p, raw, password) ==
  /\ pc[p] = "idle"
  /\ rtCount + PendingSignups < MaxRefreshTokens
  /\ evCount + PendingSignups < MaxVerifyTokens
  /\ req' = [req EXCEPT ![p] = [NoReq EXCEPT !.op = "signup", !.email = toLowerCase(raw),
                                             !.password = password]]
  /\ LET existingUser == findByEmail(toLowerCase(raw)) IN
       IF existingUser # NoUser
       THEN Finish(p, Response(409, "Conflict", "Email already registered", 0))
       ELSE /\ pc' = [pc EXCEPT ![p] = "su_create"]
            /\ loc' = [loc EXCEPT ![p] = NoLoc]
            /\ resp' = [resp EXCEPT ![p] = NoResp]
  /\ UNCHANGED <<now, sweep, storeVars, histVars>>

\* User.create: INSERT INTO auth_users; a unique violation (23505) is rethrown as
\* a plain Error('Email already exists'), which the error middleware answers 500.
Signup_create(p) ==
  /\ pc[p] = "su_create"
  /\ LET u == req[p].email IN
       IF u \in auth_users
       THEN /\ Finish(p, Response(500, "Error", "Email already exists", 0))
            /\ UNCHANGED <<auth_users, password_hash>>
       ELSE /\ auth_users' = auth_users \cup {u}
            /\ password_hash' = [password_hash EXCEPT ![u] = Hash(req[p].password)]
            /\ Step(p, "su_generate", [loc[p] EXCEPT !.user = u])
  /\ UNCHANGED <<now, sweep, failed_login_attempts, locked_until, email_verified, verifyVars,
                 refresh_tokens, rtCount, password_resets, prCount, req, histVars>>

\* const verificationToken = await User.generateEmailVerificationToken(user.id)
Signup_generateToken(p) ==
  /\ pc[p] = "su_generate"
  /\ generateEmailVerificationToken(loc[p].user)
  /\ Step(p, "su_email", [loc[p] EXCEPT !.token = evCount + 1])
  /\ UNCHANGED <<now, sweep, auth_users, password_hash, failed_login_attempts, locked_until,
                 email_verified, refresh_tokens, rtCount, password_resets, prCount, req,
                 histVars>>

\* await sendEmailVerificationEmail(email, verificationToken)
Signup_sendEmail(p) ==
  /\ pc[p] = "su_email"
  /\ Step(p, "su_token", loc[p])
  /\ UNCHANGED <<now, sweep, storeVars, req, histVars>>

\* const refreshToken = await RefreshToken.create(user.id); res.status(201).json(...)
Signup_createRefreshToken(p) ==
  /\ pc[p] = "su_token"
  /\ RefreshToken_create(loc[p].user)
  /\ Finish(p, Response(201, "Created",
                        "User registered successfully. Please check your email to verify your account.",
                        0))
  /\ UNCHANGED <<now, sweep, auth_users, password_hash, failed_login_attempts, locked_until,
                 email_verified, verifyVars, password_resets, prCount, req, histVars>>

SignupStep(p) ==
  \/ Signup_create(p)
  \/ Signup_generateToken(p)
  \/ Signup_sendEmail(p)
  \/ Signup_createRefreshToken(p)

\* ---------------------------------------------------------------- refresh tokens
\* RefreshToken.findByToken: the row with this token, joined with its user.
RefreshToken_findByToken(token) ==
  {r \in refresh_tokens : r.token = token /\ r.user_id \in auth_users}

isExpiredInclusive(expiresAt, t) == expiresAt <= t

\* if (new Date(refreshToken.expires_at) < new Date())
isExpired(expiresAt, t) == expiresAt < t

refreshCheckIgnoringRevoked(token) ==
  LET rows == RefreshToken_findByToken(token) IN
    IF rows = {} THEN "Invalid refresh token"
    ELSE LET refreshToken == CHOOSE r \in rows : TRUE IN
           IF isExpired(refreshToken.expires_at, now) THEN "Refresh token has expired"
           ELSE ""

\* POST /auth/refresh, the checks on the row read: not found, then revoked, then
\* expired; "" when the token is accepted.
refreshCheck(token) ==
  LET rows == RefreshToken_findByToken(token) IN
    IF rows = {} THEN "Invalid refresh token"
    ELSE LET refreshToken == CHOOSE r \in rows : TRUE IN
           IF refreshToken.revoked THEN "Refresh token has been revoked"
           ELSE IF isExpired(refreshToken.expires_at, now) THEN "Refresh token has expired"
           ELSE ""

refreshRotating(tokens, token) ==
  {IF r.token = token THEN [r EXCEPT !.revoked = TRUE] ELSE r : r \in tokens}

\* What POST /auth/refresh writes to auth_refresh_tokens: nothing (its only store
\* call is the SELECT of findByToken).
refreshWrites(tokens, token) == tokens

\* POST /auth/refresh
Refresh(p, token) ==
  /\ pc[p] = "idle"
  /\ req' = [req EXCEPT ![p] = [NoReq EXCEPT !.op = "refresh", !.token = token]]
  /\ LET reason == refreshCheck(token) IN
       IF reason = ""
       THEN Finish(p, Response(200, "OK", "Token refreshed successfully", 0))
       ELSE Finish(p, Response(401, "Unauthorized", reason, 0))
  /\ refresh_tokens' = refreshWrites(refresh_tokens, token)
  /\ UNCHANGED <<now, sweep, auth_users, password_hash, failed_login_attempts, locked_until,
                 email_verified, verifyVars, rtCount, password_resets, prCount, histVars>>

revokeToggle(tokens, token) ==
  {IF r.token = token THEN [r EXCEPT !.revoked = ~r.revoked] ELSE r : r \in tokens}

\* RefreshToken.revoke: UPDATE auth_refresh_tokens SET revoked = TRUE WHERE token = $1
revoke(tokens, token) ==
  {IF r.token = token THEN [r EXCEPT !.revoked = TRUE] ELSE r : r \in tokens}

\* POST /auth/signout
Signout(p, token) ==
  /\ pc[p] = "idle"
  /\ req' = [req EXCEPT ![p] = [NoReq EXCEPT !.op = "signout", !.token = token]]
  /\ refresh_tokens' = revoke(refresh_tokens, token)
  /\ Finish(p, Response(200, "OK", "Signed out successfully", 0))
  /\ UNCHANGED <<now, sweep, auth_users, password_hash, failed_login_attempts, locked_until,
                 email_verified, verifyVars, rtCount, password_resets, prCount, histVars>>

\* What RefreshToken.revokeAllForUser hands back: nothing (Promise<void>; the
\* rowCount is only logged).
revokeAllForUserResult(userId) == NULL

\* POST /auth/signout-all
SignoutAll(p, userId) ==
  /\ pc[p] = "idle"
  /\ req' = [req EXCEPT ![p] = [NoReq EXCEPT !.op = "signout-all", !.email = userId]]
  /\ refresh_tokens' = revokeAllForUser(userId)
  /\ Finish(p, Response(200, "OK", "Signed out from all devices successfully",
                        revokeAllForUserResult(userId)))
  /\ UNCHANGED <<now, sweep, auth_users, password_hash, failed_login_attempts, locked_until,
                 email_verified, verifyVars, rtCount, password_resets, prCount, histVars>>

\* ---------------------------------------------------------------- specifications
\* Concurrent sign-ins for one credential from two instances, with admin unlocks.
NextSignIn ==
  \/ \E p \in Procs, e \in {1, NoUser}, pw \in Passwords : SignIn_findByEmail(p, e, pw)
  \/ \E p \in Procs : SignInStep(p)
  \/ \E p \in Procs : Deliver(p)
  \/ unlockAccount(1)
  \/ \E d \in LockTicks : Tick(d, MaxLockTime)

SpecSignIn == Init /\ [][NextSignIn]_vars

\* Sequential requests: one request at a time, the admin acts between requests.
NextSeq ==
  \/ \E e \in {1, NoUser}, pw \in Passwords : SignIn_findByEmail(1, e, pw)
  \/ SignInStep(1)
  \/ Deliver(1)
  \/ (pc[1] = "idle" /\ unlockAccount(1))
  \/ \E d \in LockTicks : Tick(d, MaxLockTime)

SpecSeq == Init /\ [][NextSeq]_vars

\* Concurrent sign-ins that all present a wrong password; nothing resets the counter.
NextFailed ==
  \/ \E p \in Procs : SignIn_findByEmail(p, 1, "pw1")
  \/ \E p \in Procs : \/ SignIn_isAccountLocked(p)
                      \/ SignIn_verifyPassword(p)
                      \/ SignIn_recordFailedLoginAttempt(p)
                      \/ SignIn_lockAccount(p)
                      \/ Deliver(p)
  \/ \E d \in LockTicks : Tick(d, MaxLockTime)

SpecFailed == Init /\ [][NextFailed]_vars

\* Concurrent forgot-password, reset-password and validate requests for one
\* credential from two instances, with one instance's cleanup interval.
PresentedTokens == 0..prCount

NextReset ==
  \/ \E p \in Procs, e \in {1, NoUser} : ForgotPassword_findByEmail(p, e, MaxResetTokens)
  \/ \E p \in Procs : ForgotPasswordStep(p)
  \/ \E p \in Procs, t \in PresentedTokens :
       ResetPassword_validateToken(p, t, "pw1")
  \/ \E p \in Procs : ResetPasswordStep(p)
  \/ \E p \in Procs, t \in PresentedTokens : ValidateResetToken(p, t)
  \/ \E p \in Procs : Deliver(p)
  \/ Cleanup_refreshTokens(1)
  \/ Cleanup_passwordResets(1)
  \/ \E d \in ResetTicks : Tick(d, MaxResetTime)

SpecReset == Init /\ [][NextReset]_vars

\* Sign-ins for two credentials and password resets for the first, served one at
\* a time, with every store call succeeding.
NextResetSeq ==
  \/ \E e \in Users, pw \in Passwords : SignIn_findByEmail(1, e, pw)
  \/ SignInStep(1)
  \/ ForgotPassword_findByEmail(1, 1, MaxResetTokens)
  \/ ForgotPasswordStep(1)
  \/ \E t \in PresentedTokens : ResetPassword_validateToken(1, t, "pw1")
  \/ ResetPassword_updatePassword(1)
  \/ ResetPassword_markAsUsed(1)
  \/ ResetPassword_revokeAllForUser(1)
  \/ ResetPassword_resetFailedLoginAttempts(1)
  \/ Deliver(1)

SpecResetSeq == Init /\ [][NextResetSeq]_vars

\* Concurrent forgot-password requests from two instances, for a registered and
\* for an unknown email.
NextForgot ==
  \/ \E p \in Procs, e \in {1, NoUser} : ForgotPassword_findByEmail(p, e, MaxIssued)
  \/ \E p \in Procs : ForgotPasswordStep(p)
  \/ \E p \in Procs : Deliver(p)
  \/ \E d \in ResetTicks : Tick(d, MaxResetTime)

SpecForgot == Init /\ [][NextForgot]_vars

\* Concurrent resend-verification and verify-email requests from two instances.
VerificationTokens == 0..evCount

NextVerify ==
  \/ \E p \in Procs, e \in {1, NoUser} : ResendVerification_findByEmail(p, e)
  \/ \E p \in Procs : ResendVerificationStep(p)
  \/ \E p \in Procs, t \in VerificationTokens : VerifyEmail_select(p, t)
  \/ \E p \in Procs : VerifyEmail_update(p)
  \/ \E p \in Procs : Deliver(p)
  \/ \E d \in VerifyTicks : Tick(d, MaxVerifyTime)

SpecVerify == Init /\ [][NextVerify]_vars

\* Concurrent sign-ups from two instances on an empty store.
NextSignup ==
  \/ \E p \in Procs, raw \in RawEmails : Signup_findByEmail(p, raw, "pw0")
  \/ \E p \in Procs : SignupStep(p)
  \/ \E p \in Procs : Deliver(p)

SpecSignup == InitSignup /\ [][NextSignup]_vars

\* Sign-ins that succeed, refreshes, sign-outs and the cleanup interval, on two
\* instances, over the lifetime of a refresh token.
RefreshTokens == 0..rtCount

NextRefresh ==
  \/ \E p \in Procs : SignIn_findByEmail(p, 1, InitialPassword)
  \/ \E p \in Procs : \/ SignIn_isAccountLocked(p)
                      \/ SignIn_verifyPassword(p)
                      \/ SignIn_resetFailedLoginAttempts(p)
                      \/ SignIn_createRefreshToken(p)
                      \/ SignIn_respond(p)
  \/ \E p \in Procs, t \in RefreshTokens : Refresh(p, t)
  \/ \E p \in Procs, t \in RefreshTokens : Signout(p, t)
  \/ \E p \in Procs : SignoutAll(p, 1)
  \/ \E p \in Procs : Deliver(p)
  \/ Cleanup_refreshTokens(1)
  \/ Cleanup_passwordResets(1)
  \/ \E d \in RefreshTicks : Tick(d, MaxRefreshTime)

SpecRefresh == Init /\ [][NextRefresh]_vars

\* One request slot (sign-in, refresh, sign-out, forgot-password, validate-reset-token,
\* reset-password) and the cleanup intervals of two instances, over the lifetimes of
\* both kinds of token.
SweepTimes == {0, TOKEN_EXPIRY_HOURS * 60, TOKEN_EXPIRY_HOURS * 60 + 1,
               REFRESH_EXPIRES_IN_DAYS * 24 * 60, REFRESH_EXPIRES_IN_DAYS * 24 * 60 + 1}

NextSweep ==
  \/ (rtCount + prCount < MaxSweepRows /\ SignIn_findByEmail(1, 1, InitialPassword))
  \/ SignIn_isAccountLocked(1)
  \/ SignIn_verifyPassword(1)
  \/ SignIn_resetFailedLoginAttempts(1)
  \/ SignIn_createRefreshToken(1)
  \/ SignIn_respond(1)
  \/ \E t \in RefreshTokens : Signout(1, t)
  \/ (rtCount + prCount < MaxSweepRows /\ ForgotPassword_findByEmail(1, 1, MaxResetTokens))
  \/ ForgotPasswordStep(1)
  \/ \E t \in PresentedTokens : ValidateResetToken(1, t)
  \/ \E t \in PresentedTokens : ResetPassword_validateToken(1, t, "pw1")
  \/ ResetPassword_updatePassword(1)
  \/ ResetPassword_markAsUsed(1)
  \/ ResetPassword_revokeAllForUser(1)
  \/ ResetPassword_resetFailedLoginAttempts(1)
  \/ \E t \in RefreshTokens : Refresh(1, t)
  \/ Deliver(1)
  \/ \E i \in Instances : Cleanup_refreshTokens(i)
  \/ \E i \in Instances : Cleanup_passwordResets(i)
  \/ \E t \in SweepTimes : t > now /\ Tick(t - now, MaxRefreshTime)

SpecSweep == Init /\ [][NextSweep]_vars

\* One request slot issuing refresh tokens (sign-in) and reset tokens (forgot-password),
\* the cleanup interval of one instance whose store calls may throw, and the clock past
\* both lifetimes. The instance keeps running: setInterval fires its callback again and
\* again, and its store calls succeed again and again.
FairSweepTimes == {TOKEN_EXPIRY_HOURS * 60 + 1, REFRESH_EXPIRES_IN_DAYS * 24 * 60 + 1}

NextSweepFair ==
  \/ (rtCount + prCount < MaxSweepRows /\ SignIn_findByEmail(1, 1, InitialPassword))
  \/ SignIn_isAccountLocked(1)
  \/ SignIn_verifyPassword(1)
  \/ SignIn_resetFailedLoginAttempts(1)
  \/ SignIn_createRefreshToken(1)
  \/ SignIn_respond(1)
  \/ (rtCount + prCount < MaxSweepRows /\ ForgotPassword_findByEmail(1, 1, MaxResetTokens))
  \/ ForgotPasswordStep(1)
  \/ Deliver(1)
  \/ Cleanup_refreshTokens(1)
  \/ Cleanup_passwordResets(1)
  \/ Cleanup_storeError(1)
  \/ \E t \in FairSweepTimes : t > now /\ Tick(t - now, MaxRefreshTime)

SpecSweepFair ==
  /\ Init /\ [][NextSweepFair]_vars
  /\ SF_vars(Cleanup_refreshTokens(1)) /\ SF_vars(Cleanup_passwordResets(1))

\* ---------------------------------------------------------------- access tokens
\* jwt.sign / jwt.verify options: issuer and audience
ISSUER == "auth-service"
AUDIENCE == "platform-services"

\* generateTokenPayload(user): { userId: user.id, email: user.email }
generateTokenPayload(user) == [userId |-> user, email |-> user]

\* generateAccessToken(payload) called at time t: jwt.sign(payload, JWT_SECRET,
\* { expiresIn: JWT_EXPIRES_IN, issuer, audience }); the token is its claims, and
\* signed says that it is a well-formed token signed with JWT_SECRET
generateAccessToken(payload, t) ==
  [userId |-> payload.userId, email |-> payload.email,
   exp |-> t + JWT_EXPIRES_IN_DAYS * 24 * 60, iss |-> ISSUER, aud |-> AUDIENCE,
   signed |-> TRUE]

NotDecoded(message) == [ok |-> FALSE, message |-> message, userId |-> NoUser, email |-> NoUser]

\* A verification that also wants an unrevoked refresh token and an unlocked account.
verifyAccessTokenRevocable(token, t) ==
  IF ~token.signed THEN NotDecoded("Invalid token")
  ELSE IF t >= token.exp THEN NotDecoded("Token expired")
  ELSE IF token.iss # ISSUER \/ token.aud # AUDIENCE THEN NotDecoded("Invalid token")
  ELSE IF \/ ~\E r \in refresh_tokens : r.user_id = token.userId /\ ~r.revoked
          \/ isAccountLocked(locked_until[token.userId], t)
  THEN NotDecoded("Invalid token")
  ELSE [ok |-> TRUE, message |-> "", userId |-> token.userId, email |-> token.email]

\* A verification whose catch block answers every failure alike.
verifyAccessTokenOneMessage(token, t) ==
  IF ~token.signed THEN NotDecoded("Invalid token")
  ELSE IF t >= token.exp THEN NotDecoded("Invalid token")
  ELSE IF token.iss # ISSUER \/ token.aud # AUDIENCE THEN NotDecoded("Invalid token")
  ELSE [ok |-> TRUE, message |-> "", userId |-> token.userId, email |-> token.email]

\* verifyAccessToken(token) called at time t: jwt.verify(token, JWT_SECRET, { issuer,
\* audience }) checks the signature, then the expiry, then audience and issuer;
\* JsonWebTokenError -> 'Invalid token', TokenExpiredError -> 'Token expired'
verifyAccessToken(token, t) ==
  IF ~token.signed THEN NotDecoded("Invalid token")
  ELSE IF t >= token.exp THEN NotDecoded("Token expired")
  ELSE IF token.iss # ISSUER \/ token.aud # AUDIENCE THEN NotDecoded("Invalid token")
  ELSE [ok |-> TRUE, message |-> "", userId |-> token.userId, email |-> token.email]

\* Sign-in mints an access token in the same turn in which it creates the refresh
\* token: each refresh-token row stands for an access token minted at its creation.
MintedAccessTokens ==
  {generateAccessToken(generateTokenPayload(r.user_id),
                       r.expires_at - REFRESH_EXPIRES_IN_DAYS * 24 * 60) : r \in refresh_tokens}

\* A token that was not signed with JWT_SECRET.
ForgedAccessToken ==
  [userId |-> 1, email |-> 1, exp |-> MaxAccessTime + 1, iss |-> ISSUER, aud |-> AUDIENCE,
   signed |-> FALSE]

\* POST /auth/verify: verifyAccessToken(token), then User.findById(decoded.userId)
Verify(p, token) ==
  /\ pc[p] = "idle"
  /\ req' = [req EXCEPT ![p] = [NoReq EXCEPT !.op = "verify", !.token = token]]
  /\ LET decoded == verifyAccessToken(token, now) IN
       IF ~decoded.ok
       THEN Finish(p, Response(401, "Unauthorized", decoded.message, 0))
       ELSE IF decoded.userId \notin auth_users
       THEN Finish(p, Response(401, "Unauthorized", "User not found", 0))
       ELSE Finish(p, Response(200, "OK", "valid", decoded.userId))
  /\ UNCHANGED <<now, sweep, storeVars, histVars>>

\* One request slot (sign-in with either password, sign-out, sign-out of all devices,
\* forgot-password, reset-password, verify) over the lifetime of an access token.
AccessTimes == {0, JWT_EXPIRES_IN_DAYS * 24 * 60 - 1, JWT_EXPIRES_IN_DAYS * 24 * 60}

NextAccess ==
  \/ \E pw \in Passwords : SignIn_findByEmail(1, 1, pw)
  \/ SignInStep(1)
  \/ \E t \in RefreshTokens : Signout(1, t)
  \/ SignoutAll(1, 1)
  \/ ForgotPassword_findByEmail(1, 1, 1)
  \/ ForgotPasswordStep(1)
  \/ \E t \in PresentedTokens : ResetPassword_validateToken(1, t, "pw1")
  \/ ResetPassword_updatePassword(1)
  \/ ResetPassword_markAsUsed(1)
  \/ ResetPassword_revokeAllForUser(1)
  \/ ResetPassword_resetFailedLoginAttempts(1)
  \/ \E token \in MintedAccessTokens \cup {ForgedAccessToken} : Verify(1, token)
  \/ Deliver(1)
  \/ \E t \in AccessTimes : t > now /\ Tick(t - now, MaxAccessTime)

SpecAccess == Init /\ [][NextAccess]_vars

\* Tokens signed with JWT_SECRET for another issuer or another audience, and unsigned
\* copies: what a caller can present besides the tokens generateAccessToken minted.
ForeignAccessTokens ==
  UNION {{[token EXCEPT !.iss = "other-service"], [token EXCEPT !.aud = "other-audience"],
          [token EXCEPT !.signed = FALSE]} : token \in MintedAccessTokens}

\* One request slot signing in and presenting access tokens to POST /auth/verify over
\* the lifetime of an access token.
NextJwt ==
  \/ \E e \in Users : SignIn_findByEmail(1, e, InitialPassword)
  \/ SignIn_isAccountLocked(1)
  \/ SignIn_verifyPassword(1)
  \/ SignIn_resetFailedLoginAttempts(1)
  \/ SignIn_createRefreshToken(1)
  \/ SignIn_respond(1)
  \/ \E token \in MintedAccessTokens \cup ForeignAccessTokens \cup {ForgedAccessToken} :
       Verify(1, token)
  \/ Deliver(1)
  \/ \E t \in AccessTimes : t > now /\ Tick(t - now, MaxAccessTime)

SpecJwt == Init /\ [][NextJwt]_vars

\* One request slot (sign-in with either password, forgot-password, reset-password),
\* the admin unlock, and the clock up to and past the end of a lockout.
LapseTimes == {LOCKOUT_DURATION_MINUTES, LOCKOUT_DURATION_MINUTES + 1}

NextLapse ==
  \/ \E pw \in Passwords : SignIn_findByEmail(1, 1, pw)
  \/ SignInStep(1)
  \/ ForgotPassword_findByEmail(1, 1, 1)
  \/ ForgotPasswordStep(1)
  \/ \E t \in PresentedTokens : ResetPassword_validateToken(1, t, "pw1")
  \/ ResetPassword_updatePassword(1)
  \/ ResetPassword_markAsUsed(1)
  \/ ResetPassword_revokeAllForUser(1)
  \/ ResetPassword_resetFailedLoginAttempts(1)
  \/ unlockAccount(1)
  \/ Deliver(1)
  \/ \E t \in LapseTimes : t > now /\ Tick(t - now, MaxLapseTime)

SpecLapse == Init /\ [][NextLapse]_vars

\* Each request slot signs in as its own credential, with either password, while an
\* admin unlocks either credential.
NextUnlock ==
  \/ \E p \in Procs, pw \in Passwords : SignIn_findByEmail(p, p, pw)
  \/ \E p \in Procs : SignInStep(p)
  \/ \E u \in Users : unlockAccount(u)
  \/ \E p \in Procs : Deliver(p)
  \/ \E d \in LockTicks : Tick(d, MaxLockTime)

SpecUnlock == Init /\ [][NextUnlock]_vars

\* ---------------------------------------------------------------- deleting a credential
\* A delete in a schema whose token tables lack ON DELETE CASCADE.
User_deleteWithoutCascade(userId) ==
  /\ userId \in auth_users
  /\ auth_users' = auth_users \ {userId}
  /\ UNCHANGED <<now, sweep, password_hash, failed_login_attempts, locked_until,
                 email_verified, verifyVars, refresh_tokens, rtCount, password_resets,
                 prCount, procVars, histVars>>

\* User.delete(userId): DELETE FROM auth_users WHERE id = $1; the rows of
\* auth_refresh_tokens and auth_password_resets that reference it go with it
\* (user_id ... REFERENCES auth_users(id) ON DELETE CASCADE).
User_delete(userId) ==
  /\ userId \in auth_users
  /\ auth_users' = auth_users \ {userId}
  /\ refresh_tokens' = {r \in refresh_tokens : r.user_id # userId}
  /\ password_resets' = {r \in password_resets : r.user_id # userId}
  /\ UNCHANGED <<now, sweep, password_hash, failed_login_attempts, locked_until,
                 email_verified, verifyVars, rtCount, prCount, procVars, histVars>>

\* Two request slots: sign-ins of credential 1 from either and of credential 2 from
\* the second, refresh, forgot-password, validate-reset-token and reset-password,
\* while credential 1 is deleted at any moment.
NextDelete ==
  \/ \E p \in Procs : SignIn_findByEmail(p, 1, InitialPassword)
  \/ SignIn_findByEmail(2, 2, InitialPassword)
  \/ \E p \in Procs : \/ SignIn_isAccountLocked(p)
                      \/ SignIn_verifyPassword(p)
                      \/ SignIn_resetFailedLoginAttempts(p)
                      \/ SignIn_createRefreshToken(p)
                      \/ SignIn_respond(p)
  \/ \E p \in Procs, t \in RefreshTokens : Refresh(p, t)
  \/ ForgotPassword_findByEmail(1, 1, MaxResetTokens)
  \/ ForgotPasswordStep(1)
  \/ \E t \in PresentedTokens : ValidateResetToken(2, t)
  \/ \E t \in PresentedTokens : ResetPassword_validateToken(1, t, "pw1")
  \/ ResetPassword_updatePassword(1)
  \/ ResetPassword_markAsUsed(1)
  \/ ResetPassword_revokeAllForUser(1)
  \/ ResetPassword_resetFailedLoginAttempts(1)
  \/ User_delete(1)
  \/ \E p \in Procs : Deliver(p)

SpecDelete == Init /\ [][NextDelete]_vars

\* Sign-ups and sign-ins of one address from two request slots, on a store that
\* starts empty: the sign-in meets the unknown email, the wrong password, the locked
\* account and the success.
NextIssue ==
  \/ \E p \in Procs, c \in BOOLEAN : Signup_findByEmail(p, [address |-> 1, upper |-> c], "pw0")
  \/ \E p \in Procs : SignupStep(p)
  \/ \E p \in Procs, pw \in Passwords : SignIn_findByEmail(p, 1, pw)
  \/ \E p \in Procs : SignInStep(p)
  \/ \E p \in Procs : Deliver(p)

SpecIssue == InitSignup /\ [][NextIssue]_vars

\* Each request slot signs in as its own credential; either slot refreshes and signs
\* either credential out of all devices; one instance sweeps; the clock runs to the
\* expiry of the refresh tokens and past it.
RevokeTimes == {REFRESH_EXPIRES_IN_DAYS * 24 * 60, REFRESH_EXPIRES_IN_DAYS * 24 * 60 + 1}

NextRevoke ==
  \/ \E p \in Procs : SignIn_findByEmail(p, p, InitialPassword)
  \/ \E p \in Procs : \/ SignIn_isAccountLocked(p)
                      \/ SignIn_verifyPassword(p)
                      \/ SignIn_resetFailedLoginAttempts(p)
                      \/ SignIn_createRefreshToken(p)
                      \/ SignIn_respond(p)
  \/ \E p \in Procs, t \in RefreshTokens : Refresh(p, t)
  \/ \E p \in Procs, u \in Users : SignoutAll(p, u)
  \/ \E p \in Procs : Deliver(p)
  \/ Cleanup_refreshTokens(1)
  \/ Cleanup_passwordResets(1)
  \/ \E t \in RevokeTimes : t > now /\ Tick(t - now, MaxRefreshTime)

SpecRevoke == Init /\ [][NextRevoke]_vars

\* ---------------------------------------------------------------- claims
LockedMessage == "Account is locked. Try again in n minutes."
NowLockedMessage == "Account locked due to too many failed attempts. Try again in n minutes."
RemainingMessage == "Invalid email or password. n attempts remaining."

\* The k-th wrong-password sign-in since the last reset was handed back k.
C3_Counted ==
  \A u \in Users : \A i \in 1..Len(returned[u]) : returned[u][i] = i

\* What a failed sign-in is answered, by the number k of failures so far.
C3_Answer ==
  \A p \in Procs :
    LET u == loc[p].user IN
      /\ (pc[p] = "si_record" /\ pc'[p] # "si_record") =>
            LET k == Len(returned'[u]) IN
              IF k < MAX_LOGIN_ATTEMPTS
              THEN /\ pc'[p] = "done"
                   /\ resp'[p] = Response(401, "Unauthorized", RemainingMessage,
                                          MAX_LOGIN_ATTEMPTS - k)
                   /\ locked_until'[u] = NULL
              ELSE pc'[p] = "si_lockwrite"
      /\ (pc[p] = "si_lockwrite" /\ pc'[p] # "si_lockwrite") =>
            /\ pc'[p] = "done"
            /\ resp'[p].status = TOO_MANY_REQUESTS /\ resp'[p].message = NowLockedMessage
            /\ locked_until'[u] = now + LOCKOUT_DURATION_MINUTES

\* C3: sequential wrong-password sign-ins from a fresh counter: the k-th is counted k;
\* for k < MAX_LOGIN_ATTEMPTS it is answered 401 with MAX_LOGIN_ATTEMPTS - k attempts
\* remaining; from k = MAX_LOGIN_ATTEMPTS on it is answered "locked" (429) and
\* locked_until is set to now + LOCKOUT_DURATION_MINUTES.
C3_ThresholdLocks == []C3_Counted /\ [][C3_Answer]_vars

C3_Witness ==
  /\ pc[1] = "done" /\ resp[1].message = NowLockedMessage
  /\ returned[1] = <<1, 2, 3, 4, 5>>
  /\ failed_login_attempts[1] = MAX_LOGIN_ATTEMPTS
  /\ locked_until[1] = now + LOCKOUT_DURATION_MINUTES

\* A lock pre-check that runs while the lock is in force.
C4_Step ==
  \A p \in Procs :
    LET u == loc[p].user IN
      (/\ pc[p] = "si_lock" /\ pc'[p] # "si_lock"
       /\ locked_until[u] # NULL /\ now < locked_until[u])
      => /\ pc'[p] = "done"
         /\ resp'[p].status = TOO_MANY_REQUESTS /\ resp'[p].kind = "TooManyRequests"
         /\ ~loc[p].compared
         /\ UNCHANGED <<failed_login_attempts, locked_until, refresh_tokens, rtCount>>

C5_NoLostUpdate ==
  \A u \in Users :
    /\ failed_login_attempts[u] = Len(returned[u])
    /\ \A i, j \in 1..Len(returned[u]) : i # j => returned[u][i] # returned[u][j]

C5_Witness ==
  /\ pc[1] = "si_lockwrite" /\ pc[2] = "si_lockwrite"
  /\ loc[1].attempts # loc[2].attempts
  /\ failed_login_attempts[1] = MAX_LOGIN_ATTEMPTS + 1

\* While a lock write is outstanding, no lock pre-check reads the row and no reset
\* or unlock clears its counter.
C6_Between ==
  \A p \in Procs :
    pc[p] = "si_lockwrite" =>
      LET u == loc[p].user IN
        /\ \A q \in Procs \ {p} :
             ~(pc[q] = "si_lock" /\ pc'[q] # "si_lock" /\ loc[q].user = u)
        /\ failed_login_attempts'[u] >= failed_login_attempts[u]

\* C6: the increment that reaches the threshold and the write of locked_until are
\* one store update: no lock pre-check, reset or unlock of another request takes
\* effect between the two.
C6_SameUpdate == [][C6_Between]_vars

\* C7: locked_until is non-NULL only if failed_login_attempts >= MAX_LOGIN_ATTEMPTS.
C7_LockedOnlyAtThreshold ==
  \A u \in Users :
    locked_until[u] # NULL => failed_login_attempts[u] >= MAX_LOGIN_ATTEMPTS

\* C8: with requests served one at a time, a successful sign-in leaves
\* failed_login_attempts = 0 and locked_until = NULL, and the account is locked only
\* after at least MAX_LOGIN_ATTEMPTS wrong-password sign-ins since the last success.
C8_SuccessResets ==
  /\ \A p \in {1} :
       (pc[p] = "done" /\ resp[p].message = "Login successful")
         => /\ failed_login_attempts[req[p].email] = 0
            /\ locked_until[req[p].email] = NULL
  /\ \A u \in Users :
       locked_until[u] # NULL => Len(returned[u]) >= MAX_LOGIN_ATTEMPTS

C8_Witness ==
  /\ rtCount >= 1
  /\ Len(returned[1]) = MAX_LOGIN_ATTEMPTS - 1
  /\ failed_login_attempts[1] = MAX_LOGIN_ATTEMPTS - 1
  /\ locked_until[1] = NULL
  /\ pc[1] = "done" /\ resp[1].message = RemainingMessage /\ resp[1].n = 1

\* C1: a reset token is consumed at most once: under any one token the password is
\* updated by at most one reset-password request.
C1_SingleUse == \A t \in DOMAIN pwUpdates : pwUpdates[t] <= 1

\* The usable reset tokens of a credential: used = FALSE and expires_at >= now.
Usable(u) == {r \in password_resets : r.user_id = u /\ ~r.used /\ r.expires_at >= now}

\* C2: each credential has at most one usable (unused, unexpired) reset token.
C2_AtMostOneUsable == \A u \in Users : Cardinality(Usable(u)) <= 1

\* C9: reset-password is all-or-nothing: once a request that passed validation has
\* ended, by completing or by a failed step, its token is marked used by the reset
\* flow exactly if the password was updated under it.
C9_AllOrNothing ==
  \A p \in Procs :
    (pc[p] = "done" /\ req[p].op = "reset-password" /\ resp[p].status # 400)
      => (req[p].token \in consumed <=> pwUpdates[req[p].token] > 0)

\* C10: when a reset token B was issued after a token A of the same credential,
\* validating A (not yet swept) reports "already used".
C10_OlderTokenUsed ==
  \A a, b \in password_resets :
    (a.user_id = b.user_id /\ a.token < b.token)
      => validateToken(a.token).reason = "Token has already been used"

\* A reset-password request that has completed with success.
ResetDone(p) ==
  pc[p] = "done" /\ req[p].op = "reset-password" /\ resp[p].status = 200

\* The state a completed reset-password leaves for its credential.
C11_Effect ==
  \A p \in Procs :
    ResetDone(p) =>
      LET u == loc[p].user IN
        /\ password_hash[u] = Hash(req[p].password)
        /\ \A r \in password_resets : r.token = req[p].token => r.used
        /\ \A r \in refresh_tokens : r.user_id = u => r.revoked
        /\ failed_login_attempts[u] = 0
        /\ locked_until[u] = NULL

\* What the steps of a reset-password request leave alone.
C11_Frame ==
  \A p \in Procs :
    (pc[p] \in {"rp_update", "rp_mark", "rp_revoke", "rp_reset"} /\ pc'[p] # pc[p]) =>
      \A v \in Users \ {loc[p].user} :
        /\ password_hash'[v] = password_hash[v]
        /\ failed_login_attempts'[v] = failed_login_attempts[v]
        /\ locked_until'[v] = locked_until[v]
        /\ {r \in refresh_tokens' : r.user_id = v} = {r \in refresh_tokens : r.user_id = v}

\* C11: when reset-password succeeds, on completion the password hash is the new
\* one, the presented token is used, every refresh token of the credential is
\* revoked and its lockout fields are 0 / NULL; the password, lockout fields and
\* refresh tokens of every other credential are unchanged by the request.
C11_ResetEffect == []C11_Effect /\ [][C11_Frame]_vars

C11_Witness ==
  /\ ResetDone(1) /\ loc[1].user = 1
  /\ \E r \in refresh_tokens : r.user_id = 1 /\ r.revoked
  /\ \E r \in refresh_tokens : r.user_id = 2 /\ ~r.revoked
  /\ failed_login_attempts[2] > 0
  /\ password_hash[1] # password_hash[2]

\* The reset tokens of credential u created in the rolling window that ends at t.
IssuedInWindow(u, t) ==
  {r \in password_resets :
     r.user_id = u /\ r.created_at > t - RESET_RATE_WINDOW_MINUTES /\ r.created_at <= t}

\* C12: under any interleaving of forgot-password requests, no credential has more
\* than RESET_RATE_MAX reset tokens issued within any rolling window of
\* RESET_RATE_WINDOW_MINUTES minutes.
C12_WindowLimit ==
  \A u \in Users : \A t \in 0..now :
    Cardinality(IssuedInWindow(u, t)) <= RESET_RATE_MAX

\* C13: forgot-password answers every case (email not registered, token issued,
\* rate-limited) with the status and body it gives for an unregistered email.
C13_SameAck ==
  \A p \in Procs :
    (pc[p] = "done" /\ req[p].op = "forgot-password") =>
      /\ resp[p] = GenericAck
      /\ \A q \in Procs :
           (pc[q] = "done" /\ req[q].op = "forgot-password") => resp[q] = resp[p]

C13_Witness ==
  \E p, q \in Procs :
    /\ pc[p] = "done" /\ req[p].op = "forgot-password" /\ req[p].email = NoUser
    /\ pc[q] = "done" /\ req[q].op = "forgot-password" /\ req[q].email = 1
    /\ loc[q].token = 0
    /\ getRecentRequestCount(1, RESET_RATE_WINDOW_MINUTES) >= RESET_RATE_MAX

\* C14: resend-verification answers every case (email not registered, registered
\* and unverified, registered and already verified) with the response it gives for
\* an unregistered email.
C14_SameAck ==
  \A p \in Procs :
    (pc[p] = "done" /\ req[p].op = "resend-verification") => resp[p] = ResendAck

\* C15: a sign-in for an email with no credential fails with the same error kind
\* and message as a sign-in with a wrong password for an existing, unlocked
\* credential (here: one that stays below the lockout threshold).
C15_SameFailure ==
  \A p, q \in Procs :
    (/\ pc[p] = "done" /\ req[p].op = "signin" /\ req[p].email \notin auth_users
     /\ pc[q] = "done" /\ req[q].op = "signin" /\ req[q].email \in auth_users
     /\ loc[q].compared /\ ~loc[q].valid /\ resp[q].status = 401)
    => /\ resp[p].kind = resp[q].kind
       /\ resp[p].message = resp[q].message

\* C16: a sign-up either creates the credential (201) or, when its normalized email
\* already belongs to a credential, fails with Conflict (409); this also when two
\* sign-ups for the same email run concurrently.
C16_DuplicateConflict ==
  \A p \in Procs :
    (pc[p] = "done" /\ req[p].op = "signup") =>
      \/ resp[p].status = 201
      \/ resp[p].status = 409 /\ resp[p].kind = "Conflict"

\* The refresh request that slot p makes in this step, if any.
RefreshBy(p) == pc[p] = "idle" /\ req'[p].op = "refresh"

\* The presented token has a row that is neither revoked nor expired.
LiveRefreshToken(token) ==
  \E r \in refresh_tokens : r.token = token /\ ~r.revoked /\ r.expires_at >= now

\* A refresh is answered 200 exactly when the token is live, and 401 otherwise.
C17_Step ==
  \A p \in Procs :
    RefreshBy(p) =>
      IF LiveRefreshToken(req'[p].token)
      THEN resp'[p].status = 200 /\ resp'[p].message = "Token refreshed successfully"
      ELSE resp'[p].status = 401 /\ resp'[p].kind = "Unauthorized"

\* C17: refresh succeeds if and only if the presented refresh token exists, is not
\* revoked and has expires_at >= now; otherwise it is answered Unauthorized (401),
\* also for an expired token the cleanup has not yet deleted.
C17_RefreshIffLive == [][C17_Step]_vars

C17_Witness ==
  \E p \in Procs :
    /\ pc[p] = "done" /\ req[p].op = "refresh" /\ resp[p].status = 401
    /\ resp[p].message = "Refresh token has expired"
    /\ \E r \in refresh_tokens : r.token = req[p].token /\ ~r.revoked /\ r.expires_at < now

\* A refresh, accepted or rejected, writes nothing to the refresh-token store.
C18_Step ==
  \A p \in Procs :
    RefreshBy(p) => refresh_tokens' = refresh_tokens /\ rtCount' = rtCount

C19_Step ==
  /\ \A r \in refresh_tokens :
       r.revoked => \A r2 \in refresh_tokens' : r2.token = r.token => r2.revoked
  /\ \A p \in Procs :
       (RefreshBy(p) /\ \E r \in refresh_tokens : r.token = req'[p].token /\ r.revoked)
         => resp'[p].status = 401

\* C19: revocation is monotonic: once a refresh token's revoked flag is TRUE it stays
\* TRUE for as long as the row exists, and no refresh with it succeeds afterwards.
C19_RevocationMonotonic == [][C19_Step]_vars

C19_Witness ==
  \E p \in Procs :
    /\ pc[p] = "done" /\ req[p].op = "refresh" /\ resp[p].status = 401
    /\ resp[p].message = "Refresh token has been revoked"
    /\ \E r \in refresh_tokens : r.token = req[p].token /\ r.revoked

\* Revoking twice equals revoking once, on the current store.
C20_Idempotent ==
  \A t \in RefreshTokens :
    revoke(revoke(refresh_tokens, t), t) = revoke(refresh_tokens, t)

\* A sign-out is always acknowledged, and changes nothing when the token is
\* unknown or already revoked.
C20_Step ==
  \A p \in Procs :
    (pc[p] = "idle" /\ req'[p].op = "signout") =>
      /\ pc'[p] = "done" /\ resp'[p].status = 200
      /\ (~\E r \in refresh_tokens : r.token = req'[p].token /\ ~r.revoked)
            => refresh_tokens' = refresh_tokens

\* C20: revoking a refresh token is idempotent: a second revoke leaves the store as
\* the first did, revoking a revoked or unknown token raises no error, and sign-out
\* always acknowledges success.
C20_RevokeIdempotent == []C20_Idempotent /\ [][C20_Step]_vars

C20_Witness ==
  \E p, q \in Procs :
    /\ p # q /\ req[p].token = req[q].token
    /\ pc[p] = "done" /\ req[p].op = "signout" /\ resp[p].status = 200
    /\ pc[q] = "done" /\ req[q].op = "signout" /\ resp[q].status = 200
    /\ \E r \in refresh_tokens : r.token = req[p].token /\ r.revoked

\* The refresh tokens of credential u that a revoke-all would revoke now.
Revocable(u) == {r \in refresh_tokens : r.user_id = u /\ ~r.revoked}

\* The acknowledgement of a sign-out-all that revoked tokens carries their number.
C21_Step ==
  \A p \in Procs :
    (pc[p] = "idle" /\ req'[p].op = "signout-all" /\ Revocable(req'[p].email) # {}) =>
      resp'[p].n = Cardinality(Revocable(req'[p].email))

\* C21: revokeAllForUser returns the number of refresh tokens it revoked and
\* sign-out-all reports that count in its acknowledgement.
C21_ReportsCount == [][C21_Step]_vars

\* What one deleteExpired call does to its store, and the count it returns.
Swept(before, after) ==
  /\ after = {r \in before : r.expires_at >= now}
  /\ deleteExpiredRowCount(before, now) = Cardinality(before \ after)

\* The two calls of an instance's cleanup callback.
C22_Step ==
  \A i \in Instances :
    /\ (sweep[i] = "wait" /\ sweep'[i] = "resets")
         => Swept(refresh_tokens, refresh_tokens') /\ password_resets' = password_resets
    /\ (sweep[i] = "resets" /\ sweep'[i] = "wait")
         => Swept(password_resets, password_resets') /\ refresh_tokens' = refresh_tokens

\* C22: deleteExpired, on the refresh-token store and on the password-reset store,
\* removes exactly the rows with expires_at < now, leaves every row with
\* expires_at >= now unchanged whatever its revoked / used flag, and returns the
\* number of rows removed.
C22_DeleteExactlyExpired == [][C22_Step]_vars

C22_Witness ==
  /\ \E t \in 1..rtCount : ~\E r \in refresh_tokens : r.token = t
  /\ \E r \in refresh_tokens : r.revoked /\ r.expires_at >= now
  /\ \E t \in 1..prCount : ~\E r \in password_resets : r.token = t
  /\ \E i \in Instances : sweep[i] = "wait"

\* The tokens of the rows of a store that have not expired at time t.
LiveTokens(rows, t) == {r.token : r \in {x \in rows : x.expires_at >= t}}

\* No step of any request or sweep removes a row that has not expired.
C23_KeepsLive ==
  /\ LiveTokens(refresh_tokens, now) \subseteq {r.token : r \in refresh_tokens'}
  /\ LiveTokens(password_resets, now) \subseteq {r.token : r \in password_resets'}

\* A sweep leaves what a single sweep at that time leaves, so that a sweep of another
\* instance at the same time changes nothing.
C23_OneSweep ==
  \A i \in Instances :
    /\ (sweep[i] = "wait" /\ sweep'[i] = "resets")
         => /\ refresh_tokens' = deleteExpired(refresh_tokens, now)
            /\ deleteExpired(refresh_tokens', now) = refresh_tokens'
    /\ (sweep[i] = "resets" /\ sweep'[i] = "wait")
         => /\ password_resets' = deleteExpired(password_resets, now)
            /\ deleteExpired(password_resets', now) = password_resets'

\* C23: sweeps of several instances interleave with each other and with token
\* creation, revocation, validation and consumption: no step deletes a row with
\* expires_at >= now, and the store after concurrent sweeps is the store after a
\* single sweep at that time.
C23_ConcurrentSweepsSafe == [][C23_KeepsLive /\ C23_OneSweep]_vars

C23_Witness ==
  /\ sweep[1] = "resets" /\ sweep[2] = "resets"
  /\ pc[1] \notin {"idle", "done"}
  /\ \E t \in 1..rtCount : ~\E r \in refresh_tokens : r.token = t
  /\ LiveTokens(refresh_tokens, now) # {}
  /\ \E r \in password_resets : r.used

\* Request slot p holds the successful answer of a verify-email request for token.
VerifiedWith(p, token) ==
  /\ pc[p] = "done"
  /\ req[p].op = "verify-email"
  /\ req[p].token = token
  /\ resp[p].status = 200

\* C24: an email-verification token is single-use: of the verify-email requests
\* presenting one token, at most one returns success, also when two of them run
\* concurrently.
C24_SingleUse ==
  \A token \in 1..evCount :
    Cardinality({p \in Procs : VerifiedWith(p, token)}) <= 1

InvalidVerificationToken == Response(400, "BadRequest", "Invalid verification token", 0)

\* Issuing a token stores it, with its expiry, in place of the credential's token.
C25_Overwrites ==
  evCount' = evCount + 1 =>
    \E u \in auth_users :
      /\ email_verification_token' =
           [email_verification_token EXCEPT ![u] = evCount + 1]
      /\ email_verification_expires' =
           [email_verification_expires EXCEPT
              ![u] = now + EMAIL_VERIFICATION_EXPIRY_HOURS * 60]

\* A verify-email request that presents a token issued before the latest one.
C25_Superseded ==
  \A p \in Procs :
    (pc[p] = "idle" /\ req'[p].op = "verify-email" /\ req'[p].token \in 1..(evCount - 1))
      => pc'[p] = "done" /\ resp'[p] = InvalidVerificationToken

\* C25: a credential holds at most one live email-verification token: issuing a new
\* token overwrites the stored token and expiry, and presenting a previously issued
\* token afterwards fails as an invalid (not found) token.
C25_OneLiveToken == [][C25_Overwrites /\ C25_Superseded]_vars

C25_Witness ==
  /\ evCount = 2
  /\ email_verification_token[1] = 2
  /\ \E p \in Procs :
       /\ pc[p] = "done"
       /\ req[p].op = "verify-email"
       /\ req[p].token = 1
       /\ resp[p] = InvalidVerificationToken

\* C26: in every reachable state a credential with email_verified = TRUE has
\* email_verification_token = NULL and email_verification_expires = NULL.
C26_VerifiedHasNoToken ==
  \A u \in auth_users :
    email_verified[u] =>
      email_verification_token[u] = NULL /\ email_verification_expires[u] = NULL

\* The rows of the reset store that carry a token.
ResetRows(token) == {r \in password_resets : r.token = token}

\* The answer the priority order gives for a token in the current state.
C27_Outcome(token) ==
  IF ResetRows(token) = {} THEN "Token not found"
  ELSE IF \E r \in ResetRows(token) : r.used THEN "Token has already been used"
  ELSE IF \E r \in ResetRows(token) : r.expires_at < now THEN "Token has expired"
  ELSE "valid"

\* The validation of validate-reset-token and the one that opens reset-password.
C27_Step ==
  \A p \in Procs :
    /\ (pc[p] = "idle" /\ req'[p].op = "validate-reset-token")
         => /\ pc'[p] = "done"
            /\ resp'[p].message = C27_Outcome(req'[p].token)
            /\ UNCHANGED storeVars
    /\ (pc[p] = "idle" /\ req'[p].op = "reset-password")
         => /\ IF C27_Outcome(req'[p].token) = "valid"
               THEN pc'[p] = "rp_update"
               ELSE /\ pc'[p] = "done"
                    /\ resp'[p].status = 400
                    /\ resp'[p].message = C27_Outcome(req'[p].token)
            /\ UNCHANGED storeVars

\* C27: validateToken reports in a fixed priority: an unknown token is 'not found';
\* a known token with used = TRUE is 'already used' even if it has also expired; a
\* known unused token with expires_at < now is 'expired'; only a known, unused,
\* unexpired token is valid; and validation never changes the store.
C27_ReasonPriority == [][C27_Step]_vars

C27_Witness ==
  \E p \in Procs :
    /\ pc[p] = "done"
    /\ req[p].op = "validate-reset-token"
    /\ resp[p].message = "Token has already been used"
    /\ \E r \in ResetRows(req[p].token) : r.used /\ r.expires_at < now

\* The latest reset token issued, when no reset-password request has consumed it and
\* its hour has passed: its row is unused and expired, or a sweep has removed it.
ExpiredUnconsumed(token) ==
  /\ token = prCount
  /\ token >= 1
  /\ token \notin consumed
  /\ \A r \in ResetRows(token) : ~r.used /\ r.expires_at < now

C28_Step ==
  \A p \in Procs :
    (/\ pc[p] = "idle"
     /\ req'[p].op = "validate-reset-token"
     /\ ExpiredUnconsumed(req'[p].token))
      => resp'[p].message = "Token has expired"

\* C28: for a reset token that was issued and never consumed or superseded, every
\* validate call made after its expiry answers valid = false with reason 'expired',
\* however long after the expiry and whatever sweeps have run in between.
C28_ExpiredForever == [][C28_Step]_vars

\* A verify request for a token signed by the service succeeds exactly while the
\* token has not reached its own expiry, whatever the stores hold.
C29_Step ==
  \A p \in Procs :
    (pc[p] = "idle" /\ req'[p].op = "verify" /\ req'[p].token.signed)
      => /\ pc'[p] = "done"
         /\ resp'[p].status = 200 <=> now < req'[p].token.exp
         /\ resp'[p].status # 200 => resp'[p].message = "Token expired"
         /\ UNCHANGED storeVars

\* C29: access tokens are not revocable: signing out, signing out of all devices,
\* resetting the password or locking the account never makes a previously minted
\* access token fail verification before its own expiry; the outcome depends on the
\* token and the current time only.
C29_NotRevocable == [][C29_Step]_vars

C29_Witness ==
  /\ pc[1] = "done"
  /\ req[1].op = "verify"
  /\ resp[1].status = 200
  /\ \A r \in refresh_tokens : r.revoked
  /\ refresh_tokens # {}
  /\ password_hash[1] # Hash(InitialPassword)
  /\ isAccountLocked(locked_until[1], now)

\* The lock of u has lapsed: a stored locked_until that the clock has reached.
Lapsed(u) == locked_until[u] # NULL /\ now >= locked_until[u]

LockFields(u) == <<failed_login_attempts[u], locked_until[u]>>

\* The pre-check on a lapsed lock reports not locked and writes nothing, and the
\* passing of time writes nothing.
C30_PreCheck ==
  /\ \A p \in Procs :
       (pc[p] = "si_lock" /\ pc'[p] # "si_lock" /\ Lapsed(loc[p].user))
         => pc'[p] = "si_verify" /\ UNCHANGED storeVars
  /\ now' # now => UNCHANGED storeVars

\* A sign-in that is past the pre-check with the stored password goes on to reset
\* the lockout fields and is answered 200.
C30_Succeeds ==
  \A p \in Procs :
    (/\ pc[p] \in {"si_verify", "si_reset", "si_token", "si_verified"}
     /\ pc'[p] # pc[p]
     /\ Compare(req[p].password, loc[p].hash))
      => /\ pc'[p] \in {"si_reset", "si_token", "si_verified", "done"}
         /\ pc[p] = "si_reset" => LockFields(loc[p].user)' = <<0, NULL>>
         /\ pc'[p] = "done" => resp'[p].status = 200

\* Once the lock has lapsed, only a reset of both fields changes them.
C30_KeptUntilReset ==
  \A u \in Users :
    (Lapsed(u) /\ LockFields(u)' # LockFields(u)) => LockFields(u)' = <<0, NULL>>

\* Once the lock has lapsed, only a reset of both fields or the writes of a failed
\* sign-in change them.
C30_KeptUntilAttempt ==
  \A u \in Users :
    (Lapsed(u) /\ LockFields(u)' # LockFields(u))
      => \/ LockFields(u)' = <<0, NULL>>
         \/ \E p \in Procs : /\ pc[p] \in {"si_record", "si_lockwrite"}
                              /\ pc'[p] # pc[p]
                              /\ loc[p].user = u

C31_Step ==
  (pc' = pc /\ now' = now) =>
    \E u \in Users :
      /\ failed_login_attempts' = [failed_login_attempts EXCEPT ![u] = 0]
      /\ locked_until' = [locked_until EXCEPT ![u] = NULL]
      /\ ~isAccountLocked(locked_until'[u], now')
      /\ UNCHANGED <<auth_users, password_hash, email_verified, verifyVars,
                     refresh_tokens, password_resets>>

\* C31: admin unlock forces the reset from any state: after unlockAccount(id),
\* failed_login_attempts = 0 and locked_until = NULL whatever their prior values, the
\* lock pre-check reports locked = false, and no other credential's fields change.
C31_UnlockForcesReset == [][C31_Step]_vars

\* Credential 1 was answered 'locked' and is unlocked before the lock would have
\* lapsed, while credential 2 keeps its count and its lock.
C31_Witness ==
  /\ pc[1] = "done"
  /\ resp[1].status = TOO_MANY_REQUESTS
  /\ failed_login_attempts[1] = 0
  /\ locked_until[1] = NULL
  /\ failed_login_attempts[2] >= MAX_LOGIN_ATTEMPTS
  /\ isAccountLocked(locked_until[2], now)

\* Issued refresh / reset tokens that no row of an existing credential carries.
OrphanedRefreshTokens ==
  {t \in 1..rtCount : ~\E r \in refresh_tokens : r.token = t /\ r.user_id \in auth_users}

OrphanedResetTokens ==
  {t \in 1..prCount : ~\E r \in password_resets : r.token = t /\ r.user_id \in auth_users}

\* Every refresh token and every reset token refers to an existing credential.
C32_Referential ==
  /\ \A r \in refresh_tokens : r.user_id \in auth_users
  /\ \A r \in password_resets : r.user_id \in auth_users

\* A refresh, validation or reset presenting a token of a deleted credential fails.
C32_Refused ==
  \A p \in Procs :
    /\ (pc[p] = "idle" /\ req'[p].op = "refresh" /\ req'[p].token \in OrphanedRefreshTokens)
         => pc'[p] = "done" /\ resp'[p].status = 401
    /\ (/\ pc[p] = "idle"
        /\ req'[p].op = "validate-reset-token"
        /\ req'[p].token \in OrphanedResetTokens)
         => pc'[p] = "done" /\ resp'[p].message = "Token not found"
    /\ (pc[p] = "idle" /\ req'[p].op = "reset-password" /\ req'[p].token \in OrphanedResetTokens)
         => pc'[p] = "done" /\ resp'[p].status = 400

\* C32: deleting a credential removes all of its refresh tokens and password-reset
\* tokens: in every reachable state each refresh token and each reset token refers
\* to an existing credential, and after the deletion no refresh, reset-token
\* validation or reset with a token of the deleted credential succeeds.
C32_DeleteCascades == []C32_Referential /\ [][C32_Refused]_vars

C32_Witness ==
  /\ 1 \notin auth_users
  /\ \E r \in refresh_tokens : r.user_id = 2
  /\ OrphanedResetTokens # {}
  /\ pc[1] = "done" /\ req[1].op = "refresh" /\ req[1].token \in OrphanedRefreshTokens
  /\ resp[1].status = 401

\* The step of request slot p inserts one fresh non-revoked refresh token for the
\* credential of its request and leaves the rows there are unchanged.
InsertsOne(p) ==
  \E r \in refresh_tokens' \ refresh_tokens :
    /\ refresh_tokens' = refresh_tokens \cup {r}
    /\ r.user_id = loc[p].user
    /\ ~r.revoked
    /\ \A x \in refresh_tokens : x.token # r.token

\* A request is answered as successful only from the step after its one insert, a
\* failed sign-in is answered from a step before it, and nothing else touches the
\* refresh-token store.
C33_Step ==
  /\ \A p \in Procs :
       /\ (pc[p] # "si_verified" /\ pc'[p] = "si_verified") => pc[p] = "si_token" /\ InsertsOne(p)
       /\ (pc[p] # "done" /\ pc'[p] = "done" /\ req'[p].op = "signin")
            => IF resp'[p].status = 200
               THEN pc[p] = "si_verified" /\ refresh_tokens' = refresh_tokens
               ELSE /\ pc[p] \in {"idle", "si_lock", "si_record", "si_lockwrite"}
                    /\ refresh_tokens' = refresh_tokens
       /\ (pc[p] # "done" /\ pc'[p] = "done" /\ req'[p].op = "signup")
            => IF resp'[p].status = 201
               THEN pc[p] = "su_token" /\ InsertsOne(p)
               ELSE pc[p] \in {"idle", "su_create"} /\ refresh_tokens' = refresh_tokens
  /\ refresh_tokens' # refresh_tokens
       => \E p \in Procs : pc[p] \in {"si_token", "su_token"} /\ pc'[p] # pc[p]

\* C33: every successful sign-in and every successful sign-up inserts exactly one
\* new non-revoked refresh token for that credential and leaves all existing refresh
\* tokens unchanged, so a credential can hold any number of simultaneously valid
\* tokens; a sign-in that fails (unknown email, wrong password, locked) inserts none.
C33_OneTokenPerSuccess == [][C33_Step]_vars

C33_Witness ==
  /\ Cardinality({r \in refresh_tokens : r.user_id = 1 /\ ~r.revoked}) >= 2
  /\ pc[1] = "done" /\ req[1].op = "signin" /\ resp[1].status = 200
  /\ pc[2] = "done" /\ req[2].op = "signin" /\ resp[2].status = 401

\* Sign-out of all devices flags every token of the credential and nothing else.
C34_Bulk ==
  \A p \in Procs :
    (pc[p] = "idle" /\ req'[p].op = "signout-all")
      => /\ \A r \in refresh_tokens :
              IF r.user_id = req'[p].email
              THEN [r EXCEPT !.revoked = TRUE] \in refresh_tokens'
              ELSE r \in refresh_tokens'
         /\ Cardinality(refresh_tokens') = Cardinality(refresh_tokens)

\* A revoked token leaves the store only in a sweep after its expiry, and as long as
\* it is stored a refresh presenting it is refused as revoked.
C34_Kept ==
  /\ \A r \in refresh_tokens :
       r.revoked =>
         \/ r \in refresh_tokens'
         \/ r.expires_at < now /\ sweep' # sweep
  /\ \A p \in Procs :
       (/\ pc[p] = "idle"
        /\ req'[p].op = "refresh"
        /\ \E r \in refresh_tokens : r.token = req'[p].token /\ r.revoked)
         => resp'[p].status = 401 /\ resp'[p].message = "Refresh token has been revoked"

\* C34: revokeAllForUser(c) leaves no non-revoked refresh token of credential c
\* among those that existed when it ran, never changes a token of another
\* credential and never deletes a row; a revoked token stays in the store, and
\* refresh reports it as revoked, until its expiry has passed and a sweep removes it.
C34_BulkRevocation == [][C34_Bulk /\ C34_Kept]_vars

C34_Witness ==
  \E p \in Procs :
    /\ pc[p] = "done" /\ req[p].op = "refresh"
    /\ resp[p].message = "Refresh token has been revoked"
    /\ \E r \in refresh_tokens : r.token = req[p].token /\ r.revoked /\ r.expires_at < now
    /\ \E r \in refresh_tokens : r.user_id # 1 /\ ~r.revoked

\* A POST /auth/verify request is answered in the step that takes it.
C35_Verifies(p) == pc[p] = "idle" /\ pc'[p] = "done" /\ req'[p].op = "verify"

C35_Unauthorized(p, message) ==
  resp'[p].status = 401 /\ resp'[p].kind = "Unauthorized" /\ resp'[p].message = message

C35_RightParty(token) == token.iss = ISSUER /\ token.aud = AUDIENCE

C35_OriginalStep ==
  \A p \in Procs : C35_Verifies(p) =>
    LET token == req'[p].token IN
      /\ (token.signed /\ C35_RightParty(token) /\ now >= token.exp)
            => C35_Unauthorized(p, "Token expired")
      /\ (~token.signed \/ ~C35_RightParty(token)) => C35_Unauthorized(p, "Invalid token")
      /\ (token \in MintedAccessTokens /\ now < token.exp)
            => resp'[p].status = 200 /\ resp'[p].n = token.userId

\* C35 as stated: every presented token with a bad issuer or audience is answered
\* 'Invalid token', whether or not its expiry has passed.
C35_Original == [][C35_OriginalStep]_vars

C35_Step ==
  \A p \in Procs : C35_Verifies(p) =>
    LET token == req'[p].token
        decoded == verifyAccessToken(token, now) IN
      /\ (token.signed /\ now >= token.exp) => C35_Unauthorized(p, "Token expired")
      /\ (~token.signed \/ (~C35_RightParty(token) /\ now < token.exp))
            => C35_Unauthorized(p, "Invalid token")
      /\ (token \in MintedAccessTokens /\ now < token.exp)
            => /\ decoded.ok /\ decoded.userId = token.userId /\ decoded.email = token.email
               /\ resp'[p].status = 200 /\ resp'[p].n = token.userId

\* C35: access-token verification separates its failures, both Unauthorized: a token
\* signed with the secret whose expiry has passed fails with 'Token expired' whatever its
\* issuer and audience; an unsigned or malformed token, and an unexpired token with a bad
\* issuer or audience, fail with 'Invalid token'; a token minted by generateAccessToken
\* verifies until its expiry and yields the userId and email it was minted with.
C35_SeparatesFailures == [][C35_Step]_vars

C35_Witness ==
  \E p \in Procs :
    /\ pc[p] = "done" /\ req[p].op = "verify"
    /\ req[p].token.signed /\ ~C35_RightParty(req[p].token) /\ now >= req[p].token.exp
    /\ resp[p].message = "Token expired"

C36_RefreshStored(k) == \E r \in refresh_tokens : r.token = k
C36_RefreshExpired(k) == \E r \in refresh_tokens : r.token = k /\ r.expires_at < now
C36_ResetStored(k) == \E r \in password_resets : r.token = k
C36_ResetExpired(k) == \E r \in password_resets : r.token = k /\ r.expires_at < now

C36_EventuallyDeleted ==
  /\ \A k \in 1..MaxRefreshTokens : C36_RefreshExpired(k) ~> ~C36_RefreshStored(k)
  /\ \A k \in 1..MaxResetTokens : C36_ResetExpired(k) ~> ~C36_ResetStored(k)

\* A sweep deletes reset tokens only after its refresh-token deletion went through, and
\* a sweep that has just deleted refresh tokens goes on to the reset tokens.
C36_RefreshFirst ==
  \A i \in Instances : sweep'[i] # sweep[i] =>
    /\ (sweep'[i] = "resets") =>
          sweep[i] \in {"wait", "caught"} /\ refresh_tokens' = deleteExpired(refresh_tokens, now)
                                          /\ password_resets' = password_resets
    /\ (sweep[i] = "resets" /\ sweep'[i] = "wait") =>
          password_resets' = deleteExpired(password_resets, now)
    /\ (sweep'[i] = "wait") => sweep[i] = "resets"

\* A sweep that failed left the stores alone and its instance ready to sweep again.
C36_Caught ==
  \A i \in Instances :
    /\ (sweep'[i] = "caught" /\ sweep[i] # "caught") => UNCHANGED <<refresh_tokens, password_resets>>
    /\ sweep[i] \in {"wait", "caught", "resets"}
    /\ (sweep[i] = "caught") => ENABLED Cleanup_refreshTokens(i)

\* C36: under an instance whose sweep keeps firing and whose store calls succeed again
\* and again, every refresh token and every reset token whose expires_at has passed is
\* eventually deleted; within a sweep the refresh tokens are deleted before the reset
\* tokens; an error in a sweep is caught and later sweeps still run.
C36_SweepEventuallyDeletes ==
  C36_EventuallyDeleted /\ [][C36_RefreshFirst /\ C36_Caught]_vars

C36_Witness ==
  /\ sweep[1] = "caught"
  /\ rtCount > 0 /\ refresh_tokens = {}
  /\ \E r \in password_resets : r.expires_at < now

\* A failed sign-in on a lapsed lock finds the counter at or above the threshold, goes
\* on to the lock write, and the lock write sets a new locked_until and answers locked.
C37_Step ==
  \A p \in Procs :
    /\ (pc[p] = "si_record" /\ pc'[p] # pc[p] /\ Lapsed(loc[p].user))
          => /\ failed_login_attempts[loc[p].user] >= MAX_LOGIN_ATTEMPTS
             /\ pc'[p] = "si_lockwrite"
    /\ (pc[p] = "si_lockwrite" /\ pc'[p] # pc[p])
          => /\ locked_until'[loc[p].user] = now + LOCKOUT_DURATION_MINUTES
             /\ resp'[p].status = TOO_MANY_REQUESTS

\* C37: a lapsed lock does not restore the attempt budget: while locked_until is still
\* stored (no successful sign-in, password reset or admin unlock since the lock), the
\* counter is at or above the threshold, so the first failed sign-in after the lapse
\* locks again and sets a new locked_until instead of reporting attempts remaining.
C37_LapseKeepsBudgetSpent == [][C37_Step]_vars

\* A sign-in that resets the lockout fields, or creates its refresh token, does so on
\* an account that is not locked at that moment.
C38_Step ==
  \A p \in Procs :
    (pc[p] \in {"si_reset", "si_token"} /\ pc'[p] # pc[p])
      => ~isAccountLocked(locked_until[loc[p].user], now)

\* C38: no sign-in issues a token pair while the account is locked: when a sign-in
\* creates its refresh token the stored locked_until is NULL or not in the future, and
\* a lock set by concurrent failed attempts is never cleared by a sign-in whose
\* pre-check ran before the lock was set.
C38_NoTokenWhileLocked == [][C38_Step]_vars

\* The reset-password request of slot q for credential u has completed.
C39_ResetCompleted(q, u) ==
  /\ pc[q] = "done" /\ req[q].op = "reset-password" /\ resp[q].status = 200
  /\ loc[q].user = u

\* A sign-in that creates its refresh token once a reset of its credential has
\* completed authenticated against the password that reset stored.
C39_Step ==
  \A p \in Procs, q \in Procs :
    (/\ pc[p] = "si_token" /\ pc'[p] = "si_verified"
     /\ refresh_tokens' # refresh_tokens
     /\ C39_ResetCompleted(q, loc[p].user))
      => loc[p].hash = password_hash[loc[p].user]

\* C39: after a reset-password request completes, no non-revoked refresh token exists
\* for that credential that was issued by a sign-in authenticated against the old
\* password, under any interleaving of the reset with concurrent sign-ins.
C39_NoOldPasswordSession == [][C39_Step]_vars
====
